---- MODULE Spec2Model ----
(***************************************************************************)
(* Ingestion pipeline of media_catalog: the staging buffer (scraped_items),*)
(* the catalog (media_items), IngestionService._save_raw_batch,            *)
(* IngestionService.process_scraped_items, the scheduling of               *)
(* run_scheduled_ingestion in main.py, the retrying HTTP calls of          *)
(* BingedScraper and MetadataService, the resolver's id lookups and title  *)
(* search, and BingedScraper.scrape_page with its genre filter, concurrent *)
(* detail lookups and title cleaning.                                      *)
(*                                                                         *)
(* The database is modelled as its committed tables plus the state of the  *)
(* one SQLAlchemy session of the running cycle.  The session is created    *)
(* with autoflush=False (db/database.py:59-64): a query issued inside a    *)
(* batch reads the committed rows, while the objects it returns carry the  *)
(* attribute values the batch has already assigned to them.                *)
(***************************************************************************)
EXTENDS Integers, Sequences, FiniteSets, TLC

(***************************************************************************)
(* Bounds of the model.                                                    *)
(***************************************************************************)
MaxUrl == 2
\* number of distinct source URLs the listing source can show
MaxItems == 2
\* catalog rows after which no further row is inserted
MaxTmdb == 2
\* TMDB ids 1..MaxTmdb the provider can answer with
MaxIn == 2
\* longest list of listings handed to one _save_raw_batch call
MaxFires == 2
\* firings of the interval trigger after which the scheduler is not followed further
batch_size == 2
\* rows selected per batch; ingestion.py:162 sets 50, scaled down so that a
\* drain of the bounded buffer needs more than one batch

(***************************************************************************)
(* Program constants.                                                      *)
(***************************************************************************)
INGESTION_INTERVAL_HOURS == 6
\* core/config.py:36
MAX_PAGES_BACKFILL == 5
\* core/config.py:37
MAX_PAGES_MAINTENANCE == 1
\* core/config.py:38
BackfillBelow == 100
\* ingestion.py:71: `if count < 100`
PageLength == 50
\* binged.py:211: start_offset = page_number * 50


None == "None"
\* Python None / SQL NULL of a string column
NoId == 0
\* Python None / SQL NULL of the integer column tmdb_id

PENDING == "pending"
PROCESSED == "processed"
IGNORED == "ignored"
ERROR == "error"
ScrapeStatus == {PENDING, PROCESSED, IGNORED, ERROR}

S_NEW == "new"
S_PROCESSING == "processing"
S_APPROVED == "approved"
S_AVAILABLE == "available"
S_IGNORED == "ignored"
MediaStatus == {S_NEW, S_PROCESSING, S_APPROVED, S_AVAILABLE, S_IGNORED}

MOVIE == "movie"
SERIES == "series"
MediaType == {MOVIE, SERIES}

URLs == 1..MaxUrl
TmdbIds == 1..MaxTmdb
ImdbIds == {"tt1"}

\* Python truthiness of a string-valued and of an integer-valued attribute
TruthyS(x) == x # None /\ x # ""
TruthyI(x) == x # NoId

Range(s) == {s[i] : i \in DOMAIN s}

\* sequences of length 0..n over S
SeqUpTo(S, n) == UNION {[1..k -> S] : k \in 0..n}

\* sequences without repetition, of length exactly n, over S
Arrangements(S, n) == {s \in [1..n -> S] : \A i, j \in 1..n : s[i] = s[j] => i = j}

Min(a, b) == IF a < b THEN a ELSE b

(***************************************************************************)
(* State.                                                                  *)
(***************************************************************************)
VARIABLES
  scraped_items,   \* committed rows of table scraped_items; the row id is the index
  media_items,     \* committed rows of table media_items; the row id is the index
  pc,              \* position of the cycle's session: "idle", "select", "loop"
  pending_items,   \* row ids of the batch selected by process_scraped_items, in order
  pos,             \* index into pending_items of the record processed next
  s_scraped,       \* scraped_items as the session's objects hold them
  s_media,         \* media_items as the session's objects hold them, new objects last
  batch_tmdb_map,  \* tmdb_id -> id of the MediaItem cached in this batch
  batch_imdb_map,  \* imdb_id -> id of the MediaItem cached in this batch
  batch_url_map,   \* binged_url -> id of the MediaItem cached in this batch
  trail,           \* what each record of the current batch did, in order
  outcome,         \* how the last operation ended
  quiet,           \* a drain has returned and no _save_raw_batch was called since
  lastMeta,        \* per source URL: the resolver's answer at its last committed promotion
  snap,            \* the committed tables when the last batch was selected (or, later,
                   \* when the last _save_raw_batch or drain returned)
  sched,           \* state of the lifespan, the scheduler job and the two runs
  cycle,           \* per run of run_daily_scan: where its scrape phase stands
  unit             \* arguments and result of the last operation applied on its own

dbvars == <<scraped_items, media_items>>
sessvars == <<pc, pending_items, pos, s_scraped, s_media,
              batch_tmdb_map, batch_imdb_map, batch_url_map>>
histvars == <<trail, outcome, quiet, lastMeta, snap>>
vars == <<scraped_items, media_items, pc, pending_items, pos, s_scraped, s_media,
          batch_tmdb_map, batch_imdb_map, batch_url_map,
          trail, outcome, quiet, lastMeta, snap, sched, cycle, unit>>

EmptyMap == [k \in {} |-> 0]

(***************************************************************************)
(* Listings handed to _save_raw_batch (the dicts built by scrape_page).    *)
(***************************************************************************)
\* the listing the source shows for URL u; URL 1 carries a source-native IMDb id
Listing(u) ==
  [binged_url |-> u,
   title |-> "T" \o ToString(u),
   year |-> 2000 + u,
   platform |-> "P" \o ToString(u),
   binged_imdb_id |-> IF u = 1 THEN "tt1" ELSE None,
   raw_data |-> [languages |-> "Hindi"]]

Listings == {Listing(u) : u \in URLs}

\* the category page a listing is shown on: URL 1 is a film, the others shows
kind_of(u) == IF u = 1 THEN MOVIE ELSE SERIES

\* the listings scrape_page can return for the category of media_type
ListingsOf(media_type) == {Listing(u) : u \in {v \in URLs : kind_of(v) = media_type}}

\* IngestionService._parse_safe_year on an integer year
parse_safe_year(year_val) == IF year_val = 0 THEN 0 ELSE year_val

(***************************************************************************)
(* Buffer Store Reconciler: IngestionService._save_raw_batch.              *)
(***************************************************************************)
\* ScrapedItem.source_url is declared unique (models.py:49)
UniqueUrls(rows) ==
  \A i, j \in DOMAIN rows : rows[i].source_url = rows[j].source_url => i = j

\* {item.source_url: item for item in result}: the rows whose URL is among
\* source_urls, keyed by URL (a later row replaces an earlier one in the dict)
existing_items_map(rows, source_urls) ==
  [u \in {rows[i].source_url : i \in DOMAIN rows} \cap source_urls |->
     CHOOSE i \in DOMAIN rows :
       /\ rows[i].source_url = u
       /\ \A j \in DOMAIN rows : rows[j].source_url = u => j <= i]

\* raw_blob of one listing: its raw_data plus inferred_type and, when the
\* listing has one, binged_imdb_id
raw_blob(item_data, media_type) ==
  [languages |-> item_data.raw_data.languages,
   inferred_type |-> media_type,
   binged_imdb_id |-> IF TruthyS(item_data.binged_imdb_id)
                      THEN item_data.binged_imdb_id ELSE None]

\* the ScrapedItem built for a listing whose URL is not in existing_items_map
new_scraped(item_data, media_type) ==
  [source_url |-> item_data.binged_url,
   title |-> item_data.title,
   year |-> parse_safe_year(item_data.year),
   media_type |-> media_type,
   platform |-> item_data.platform,
   raw_data |-> raw_blob(item_data, media_type),
   scrape_status |-> PENDING,
   error_message |-> None]

\* an update that replaces the payload and leaves the status as it is
updated_scraped_keep_status(existing, item_data, media_type) ==
  [existing EXCEPT !.raw_data = raw_blob(item_data, media_type)]

\* the update of a row found in existing_items_map
updated_scraped(existing, item_data, media_type) ==
  [existing EXCEPT !.raw_data = raw_blob(item_data, media_type),
                   !.scrape_status = PENDING]

\* a loop in which only the inserts count as activity
RECURSIVE save_loop_counts_inserts(_, _, _, _, _, _)
save_loop_counts_inserts(items, k, rows, emap, media_type, activity_count) ==
  IF k > Len(items) THEN [rows |-> rows, activity_count |-> activity_count]
  ELSE IF items[k].binged_url \in DOMAIN emap
  THEN save_loop_counts_inserts(items, k + 1,
         [rows EXCEPT ![emap[items[k].binged_url]] =
            updated_scraped(rows[emap[items[k].binged_url]], items[k], media_type)],
         emap, media_type, activity_count)
  ELSE save_loop_counts_inserts(items, k + 1,
         Append(rows, new_scraped(items[k], media_type)),
         emap, media_type, activity_count + 1)

\* the for loop of _save_raw_batch from item k on: the session's rows and
\* activity_count after it.  emap is computed once, before the loop.
RECURSIVE save_loop(_, _, _, _, _, _)
save_loop(items, k, rows, emap, media_type, activity_count) ==
  IF k > Len(items) THEN [rows |-> rows, activity_count |-> activity_count]
  ELSE LET item_data == items[k]
           source_url == item_data.binged_url
       IN IF source_url \in DOMAIN emap
          THEN save_loop(items, k + 1,
                 [rows EXCEPT ![emap[source_url]] =
                    updated_scraped(rows[emap[source_url]], item_data, media_type)],
                 emap, media_type, activity_count + 1)
          ELSE save_loop(items, k + 1,
                 Append(rows, new_scraped(item_data, media_type)),
                 emap, media_type, activity_count + 1)

NoOutcome == [op |-> "none", result |-> "none", activity |-> 0, processed |-> 0]

\* _save_raw_batch(items, media_type): early return on an empty list, bulk
\* fetch, loop, one commit.  The commit is refused (IntegrityError, which
\* escapes to the caller) when the rows to insert break the unique index.
save_raw_batch(items, media_type) ==
  /\ pc = "idle"
  /\ IF items = <<>>
     THEN /\ outcome' = [NoOutcome EXCEPT !.op = "save", !.result = "ok"]
          /\ UNCHANGED <<scraped_items, snap>>
     ELSE LET emap == existing_items_map(scraped_items,
                                         {items[k].binged_url : k \in DOMAIN items})
              done == save_loop(items, 1, scraped_items, emap, media_type, 0)
          IN IF UniqueUrls(done.rows)
             THEN /\ scraped_items' = done.rows
                  /\ snap' = <<done.rows, media_items>>
                  /\ outcome' = [NoOutcome EXCEPT !.op = "save", !.result = "ok",
                                                  !.activity = done.activity_count]
             ELSE /\ outcome' = [NoOutcome EXCEPT !.op = "save",
                                                  !.result = "IntegrityError"]
                  /\ UNCHANGED <<scraped_items, snap>>
  /\ quiet' = FALSE
  /\ trail' = <<>>
  /\ UNCHANGED <<media_items, sessvars, lastMeta, sched, cycle>>

(***************************************************************************)
(* Metadata Resolver, as process_scraped_items sees it: each call answers  *)
(* with a metadata dict, with None, or raises.                             *)
(***************************************************************************)
\* the dict _format_result / _fetch_cinemeta build for ids (t, i)
Meta(t, i) ==
  [kind |-> "meta", tmdb_id |-> t, imdb_id |-> i,
   title |-> "M", year |-> 1990,
   overview |-> "ov", poster_url |-> "po", backdrop_url |-> None,
   genres |-> <<"Drama">>, text |-> ""]

Absent ==
  [kind |-> "absent", tmdb_id |-> NoId, imdb_id |-> None,
   title |-> None, year |-> 0,
   overview |-> None, poster_url |-> None, backdrop_url |-> None,
   genres |-> <<>>, text |-> ""]

\* a call that raises; text is str(e)
Raise == [Absent EXCEPT !.kind = "raise", !.text = "boom"]

\* `if match_data:` / `if not match_data:`
Present(m) == m.kind = "meta"

\* answers built by _format_result: a TMDB id, with or without an IMDb id
TmdbAnswers == {Meta(t, i) : t \in TmdbIds, i \in ImdbIds \cup {None}}

\* get_details_by_imdb(binged_imdb, media_type): a TMDB answer, the Cinemeta
\* fallback (tmdb_id None, imdb_id the id asked for), None, or an exception
get_details_by_imdb(binged_imdb) ==
  TmdbAnswers \cup {Meta(NoId, binged_imdb), Absent, Raise}

\* search_by_query(title, year, media_type): a TMDB answer, None, or an exception
search_by_query == TmdbAnswers \cup {Absent, Raise}

(***************************************************************************)
(* Promotion Engine: one record of IngestionService.process_scraped_items. *)
(***************************************************************************)
\* MediaItem.tmdb_id and MediaItem.imdb_id are declared unique (models.py:83-84);
\* NULLs never collide
UniqueIds(rows) ==
  \A i, j \in DOMAIN rows :
    i # j => /\ ~(rows[i].tmdb_id # NoId /\ rows[i].tmdb_id = rows[j].tmdb_id)
             /\ ~(rows[i].imdb_id # None /\ rows[i].imdb_id = rows[j].imdb_id)

\* .scalars().first() of a query without ORDER BY: any of the matching rows,
\* 0 (None) when there is none
First(hits) == IF hits = {} THEN {0} ELSE hits

\* rows matched by `select(MediaItem).where(or_(*conds))`, on committed values
id_hits(rows, m) ==
  IF Present(m)
  THEN {i \in DOMAIN rows :
          \/ (TruthyI(m.tmdb_id) /\ rows[i].tmdb_id = m.tmdb_id)
          \/ (TruthyS(m.imdb_id) /\ rows[i].imdb_id = m.imdb_id)}
  ELSE {}

\* a lookup by source URL that never matches
url_hits_none(rows, source_url) == {}

\* rows matched by `MediaItem.binged_url == scraped.source_url`
url_hits(rows, source_url) == {i \in DOMAIN rows : rows[i].binged_url = source_url}

\* a loop body without the batch cache
cache_hit_none(m, source_url, tmap, imap, umap) == [id |-> 0, via |-> "none"]

\* step A of the lookup: the batch maps by resolved tmdb_id, then imdb_id,
\* then the URL map; 0 when none hits
cache_hit(m, source_url, tmap, imap, umap) ==
  IF Present(m) /\ TruthyI(m.tmdb_id) /\ m.tmdb_id \in DOMAIN tmap
  THEN [id |-> tmap[m.tmdb_id], via |-> "batch_tmdb"]
  ELSE IF Present(m) /\ TruthyS(m.imdb_id) /\ m.imdb_id \in DOMAIN imap
  THEN [id |-> imap[m.imdb_id], via |-> "batch_imdb"]
  ELSE IF source_url \in DOMAIN umap
  THEN [id |-> umap[source_url], via |-> "batch_url"]
  ELSE [id |-> 0, via |-> "none"]

\* a map with key k bound to v when `cond` holds, unchanged otherwise
Put(map, cond, k, v) == IF cond THEN (k :> v) @@ map ELSE map

\* an UPDATE branch that assigns the resolved values as they are
merged_media_overwrite(e, m, sc) ==
  [e EXCEPT !.tmdb_id = m.tmdb_id, !.imdb_id = m.imdb_id, !.overview = m.overview,
            !.poster_url = m.poster_url, !.backdrop_url = m.backdrop_url,
            !.language = IF TruthyS(sc.raw_data.languages) THEN sc.raw_data.languages
                         ELSE e.language,
            !.platform = sc.platform, !.binged_url = sc.source_url,
            !.status = S_APPROVED]

\* an UPDATE branch that approves the item only when metadata was resolved
merged_media_approve_resolved(e, m, sc) ==
  [e EXCEPT !.tmdb_id = IF Present(m) /\ TruthyI(m.tmdb_id) THEN m.tmdb_id ELSE @,
            !.imdb_id = IF Present(m) /\ TruthyS(m.imdb_id) THEN m.imdb_id ELSE @,
            !.overview = IF Present(m) /\ TruthyS(m.overview) THEN m.overview ELSE @,
            !.poster_url = IF Present(m) /\ TruthyS(m.poster_url) THEN m.poster_url ELSE @,
            !.backdrop_url = IF Present(m) /\ TruthyS(m.backdrop_url)
                             THEN m.backdrop_url ELSE @,
            !.language = IF TruthyS(sc.raw_data.languages) THEN sc.raw_data.languages
                         ELSE @,
            !.platform = sc.platform, !.binged_url = sc.source_url,
            !.status = IF Present(m) THEN S_APPROVED ELSE @]

\* an UPDATE branch that assigns the listing's language as it is
merged_media_language_always(e, m, sc) ==
  [e EXCEPT !.tmdb_id = IF Present(m) /\ TruthyI(m.tmdb_id) THEN m.tmdb_id ELSE @,
            !.imdb_id = IF Present(m) /\ TruthyS(m.imdb_id) THEN m.imdb_id ELSE @,
            !.overview = IF Present(m) /\ TruthyS(m.overview) THEN m.overview ELSE @,
            !.poster_url = IF Present(m) /\ TruthyS(m.poster_url) THEN m.poster_url ELSE @,
            !.backdrop_url = IF Present(m) /\ TruthyS(m.backdrop_url)
                             THEN m.backdrop_url ELSE @,
            !.language = sc.raw_data.languages,
            !.platform = sc.platform, !.binged_url = sc.source_url,
            !.status = S_APPROVED]

\* an UPDATE branch that also takes title, year, genres and media type from
\* the answer and the record
merged_media_retitled(e, m, sc) ==
  [e EXCEPT !.title = IF Present(m) THEN m.title ELSE sc.title,
            !.year = IF Present(m) THEN m.year ELSE sc.year,
            !.genres = IF Present(m) THEN m.genres ELSE e.genres,
            !.media_type = sc.media_type,
            !.platform = sc.platform,
            !.binged_url = sc.source_url,
            !.status = S_APPROVED]

\* the UPDATE branch (lines 273-303) applied to the object `e`
merged_media(e, m, sc) ==
  LET languages == sc.raw_data.languages
      withMeta ==
        IF Present(m)
        THEN [e EXCEPT
               !.tmdb_id = IF TruthyI(m.tmdb_id) THEN m.tmdb_id ELSE e.tmdb_id,
               !.imdb_id = IF TruthyS(m.imdb_id) THEN m.imdb_id ELSE e.imdb_id,
               !.overview = IF TruthyS(m.overview) THEN m.overview ELSE e.overview,
               !.poster_url = IF TruthyS(m.poster_url) THEN m.poster_url
                              ELSE e.poster_url,
               !.backdrop_url = IF TruthyS(m.backdrop_url) THEN m.backdrop_url
                                ELSE e.backdrop_url]
        ELSE e
  IN [withMeta EXCEPT
        !.language = IF TruthyS(languages) THEN languages ELSE withMeta.language,
        !.platform = sc.platform,
        !.binged_url = sc.source_url,
        !.status = S_APPROVED]

\* media type of a record: the column, else raw_data's inferred_type, else movie
media_type_of(sc) ==
  LET media_type_str == IF TruthyS(sc.media_type) THEN sc.media_type
                        ELSE sc.raw_data.inferred_type
  IN IF media_type_str \in MediaType THEN media_type_str ELSE MOVIE

\* a CREATE branch that takes title and year from match_data even when it is None
new_media_from_meta_only(m, sc) ==
  [title |-> m.title, year |-> m.year,
   media_type |-> media_type_of(sc), language |-> sc.raw_data.languages,
   tmdb_id |-> m.tmdb_id, imdb_id |-> m.imdb_id, overview |-> m.overview,
   poster_url |-> m.poster_url, backdrop_url |-> m.backdrop_url,
   genres |-> m.genres, binged_url |-> sc.source_url, platform |-> sc.platform,
   streaming_date |-> None,
   status |-> IF Present(m) THEN S_APPROVED ELSE S_NEW]

\* a CREATE branch that leaves media_type at "movie"
new_media_always_movie(m, sc) ==
  [title |-> IF Present(m) THEN m.title ELSE sc.title,
   year |-> IF Present(m) THEN m.year ELSE sc.year,
   media_type |-> MOVIE, language |-> sc.raw_data.languages,
   tmdb_id |-> IF Present(m) THEN m.tmdb_id ELSE NoId,
   imdb_id |-> IF Present(m) THEN m.imdb_id ELSE None,
   overview |-> IF Present(m) THEN m.overview ELSE None,
   poster_url |-> IF Present(m) THEN m.poster_url ELSE None,
   backdrop_url |-> IF Present(m) THEN m.backdrop_url ELSE None,
   genres |-> IF Present(m) THEN m.genres ELSE <<>>,
   binged_url |-> sc.source_url, platform |-> sc.platform,
   streaming_date |-> None,
   status |-> IF Present(m) THEN S_APPROVED ELSE S_NEW]

\* the CREATE branch (lines 305-327): the MediaItem built for the record
new_media(m, sc) ==
  [title |-> IF Present(m) THEN m.title ELSE sc.title,
   year |-> IF Present(m) THEN m.year ELSE sc.year,
   media_type |-> media_type_of(sc),
   language |-> sc.raw_data.languages,
   tmdb_id |-> IF Present(m) THEN m.tmdb_id ELSE NoId,
   imdb_id |-> IF Present(m) THEN m.imdb_id ELSE None,
   overview |-> IF Present(m) THEN m.overview ELSE None,
   poster_url |-> IF Present(m) THEN m.poster_url ELSE None,
   backdrop_url |-> IF Present(m) THEN m.backdrop_url ELSE None,
   genres |-> IF Present(m) THEN m.genres ELSE <<>>,
   binged_url |-> sc.source_url,
   platform |-> sc.platform,
   streaming_date |-> None,
   status |-> IF Present(m) THEN S_APPROVED ELSE S_NEW]

\* `scraped.scrape_status = ScrapeStatus.PROCESSED` (line 340)
mark_processed(rows, sid) == [rows EXCEPT ![sid].scrape_status = PROCESSED]

\* the except branch (lines 342-345): status ERROR, error_message str(e)
mark_error(rows, sid, text) ==
  [rows EXCEPT ![sid].scrape_status = ERROR, ![sid].error_message = text]

\* the resolver's answer process_scraped_items works with (steps 2 of the
\* loop body): get_details_by_imdb only when raw_data carries binged_imdb_id,
\* search_by_query when that gave nothing
match_data(sc, ext, qry) ==
  LET first == IF TruthyS(sc.raw_data.binged_imdb_id) THEN ext ELSE Absent
  IN IF Present(first) \/ first.kind = "raise" THEN first ELSE qry

NoMeta == [Absent EXCEPT !.kind = "never"]

\* the two resolver calls as the loop body writes them
by_imdb_call(binged_imdb, media_type) ==
  [fn |-> "get_details_by_imdb", imdb_id |-> binged_imdb, title |-> None,
   year |-> 0, media_type |-> media_type]
by_query_call(title, year, media_type) ==
  [fn |-> "search_by_query", imdb_id |-> None, title |-> title,
   year |-> year, media_type |-> media_type]

\* resolver calls that query whatever the first call answered
resolver_calls_always_query(sc, ext, qry) ==
  <<by_imdb_call(sc.raw_data.binged_imdb_id, media_type_of(sc)),
    by_query_call(sc.title, sc.year, media_type_of(sc))>>

\* the resolver calls the loop body makes for record sc, in order, when the
\* first answers ext and the second qry: `if binged_imdb:` guards the
\* first, `if not match_data:` the second, and an exception raised by the
\* first leaves the try block before the second
resolver_calls(sc, ext, qry) ==
  LET binged_imdb == sc.raw_data.binged_imdb_id
      media_type == media_type_of(sc)
      first == IF TruthyS(binged_imdb)
               THEN <<by_imdb_call(binged_imdb, media_type)>> ELSE <<>>
      match_data1 == IF TruthyS(binged_imdb) THEN ext ELSE Absent
  IN IF match_data1.kind = "raise" THEN first
     ELSE IF ~Present(match_data1)
     THEN first \o <<by_query_call(sc.title, sc.year, media_type)>>
     ELSE first

\* a loop body that promotes the record before its resolver call fails: the
\* new row is already in the session when the except branch runs
record_step_promote_before_raise(sid, ext, qry, pickId, pickUrl) ==
  LET sc == s_scraped[sid]
      m == match_data(sc, ext, qry)
      n == new_media(m, sc)
      nid == Len(s_media) + 1
      fault == m.kind = "raise"
  IN [scraped |-> IF fault THEN mark_error(s_scraped, sid, m.text)
                  ELSE mark_processed(s_scraped, sid),
      media |-> IF Len(s_media) < MaxItems THEN Append(s_media, n) ELSE s_media,
      tmap |-> batch_tmdb_map, imap |-> batch_imdb_map, umap |-> batch_url_map,
      entry |-> [url |-> sc.source_url, sid |-> sid, meta |-> m,
                 repeat |-> lastMeta[sc.source_url] = m,
                 fault |-> fault, matched |-> IF fault THEN 0 ELSE nid,
                 via |-> IF fault THEN "none" ELSE "new",
                 created |-> ~fault]]

\* the body of `for scraped in pending_items` for the record with row id sid.
\* ext and qry are the answers of the two resolver calls, pickId and pickUrl
\* the rows the two database lookups return first (0: no row).  Yields the
\* session's objects and the batch maps after the body, and a trail entry.
record_step(sid, ext, qry, pickId, pickUrl) ==
  LET sc == s_scraped[sid]
      m == match_data(sc, ext, qry)
      base == [url |-> sc.source_url, sid |-> sid, meta |-> m,
               repeat |-> lastMeta[sc.source_url] = m]
  IN IF m.kind = "raise"
     THEN \* except Exception: only the record's status and message change
          [scraped |-> mark_error(s_scraped, sid, m.text),
           media |-> s_media,
           tmap |-> batch_tmdb_map, imap |-> batch_imdb_map, umap |-> batch_url_map,
           entry |-> base @@ [fault |-> TRUE, matched |-> 0, via |-> "none",
                              created |-> FALSE]]
     ELSE
       LET hitA == cache_hit(m, sc.source_url,
                             batch_tmdb_map, batch_imdb_map, batch_url_map)
           hitB == IF pickId # 0 THEN [id |-> pickId, via |-> "db_ids"]
                   ELSE IF pickUrl # 0 THEN [id |-> pickUrl, via |-> "db_url"]
                   ELSE [id |-> 0, via |-> "none"]
           existing == IF hitA.id # 0 THEN hitA ELSE hitB
           fromDb == hitA.id = 0 /\ hitB.id # 0
       IN IF existing.id # 0
          THEN LET e == s_media[existing.id]
               IN [scraped |-> mark_processed(s_scraped, sid),
                   media |-> [s_media EXCEPT ![existing.id] = merged_media(e, m, sc)],
                   \* "Add found DB item to Cache": keys of the object as found
                   tmap |-> Put(batch_tmdb_map, fromDb /\ TruthyI(e.tmdb_id),
                                e.tmdb_id, existing.id),
                   imap |-> Put(batch_imdb_map, fromDb /\ TruthyS(e.imdb_id),
                                e.imdb_id, existing.id),
                   umap |-> Put(batch_url_map, fromDb /\ e.binged_url # 0,
                                e.binged_url, existing.id),
                   entry |-> base @@ [fault |-> FALSE, matched |-> existing.id,
                                      via |-> existing.via, created |-> FALSE]]
          ELSE LET n == new_media(m, sc)
                   nid == Len(s_media) + 1
               IN [scraped |-> mark_processed(s_scraped, sid),
                   media |-> Append(s_media, n),
                   \* "Add new item to Cache immediately"
                   tmap |-> Put(batch_tmdb_map, TruthyI(n.tmdb_id), n.tmdb_id, nid),
                   imap |-> Put(batch_imdb_map, TruthyS(n.imdb_id), n.imdb_id, nid),
                   umap |-> Put(batch_url_map, n.binged_url # 0, n.binged_url, nid),
                   entry |-> base @@ [fault |-> FALSE, matched |-> nid,
                                      via |-> "new", created |-> TRUE]]

(***************************************************************************)
(* Promotion Engine: the drain loop of process_scraped_items.              *)
(***************************************************************************)
\* a select that also leaves out the rows carrying an error message
pending_ids_no_message(rows) ==
  {i \in DOMAIN rows : rows[i].scrape_status = PENDING /\ rows[i].error_message = None}

\* a select that leaves out only the PROCESSED rows
pending_ids_not_processed(rows) ==
  {i \in DOMAIN rows : rows[i].scrape_status # PROCESSED}

\* ids of the rows `scrape_status == PENDING` selects
pending_ids(rows) == {i \in DOMAIN rows : rows[i].scrape_status = PENDING}

\* a call of process_scraped_items begins
process_scraped_items ==
  /\ pc = "idle"
  /\ pc' = "select"
  /\ outcome' = [NoOutcome EXCEPT !.op = "drain", !.result = "running"]
  /\ trail' = <<>>
  /\ UNCHANGED <<dbvars, pending_items, pos, s_scraped, s_media,
                 batch_tmdb_map, batch_imdb_map, batch_url_map,
                 quiet, lastMeta, snap, sched, cycle, unit>>

\* top of `while True`: select up to batch_size PENDING rows (no ORDER BY:
\* any of them, in any order); `if not pending_items: break` returns
SelectBatch ==
  /\ pc = "select"
  /\ LET pend == pending_ids(scraped_items)
     IN IF pend = {}
        THEN /\ pc' = "idle"
             /\ outcome' = [outcome EXCEPT !.result = "returned"]
             /\ quiet' = TRUE
             /\ snap' = <<scraped_items, media_items>>
             /\ UNCHANGED <<pending_items, pos, s_scraped, s_media,
                            batch_tmdb_map, batch_imdb_map, batch_url_map,
                            trail>>
        ELSE /\ \E batch \in Arrangements(pend, Min(batch_size, Cardinality(pend))) :
                  pending_items' = batch
             /\ pc' = "loop"
             /\ pos' = 1
             /\ s_scraped' = scraped_items
             /\ s_media' = media_items
             /\ batch_tmdb_map' = EmptyMap
             /\ batch_imdb_map' = EmptyMap
             /\ batch_url_map' = EmptyMap
             /\ trail' = <<>>
             /\ snap' = <<scraped_items, media_items>>
             /\ UNCHANGED <<outcome, quiet>>
  /\ UNCHANGED <<dbvars, lastMeta, sched, cycle, unit>>

\* one iteration of `for scraped in pending_items`.  With flush_each = FALSE
\* (the code: autoflush off, no commit inside the loop) the committed tables
\* stay as they are until the commit after the loop.
process_record(flush_each, raising) ==
  /\ pc = "loop"
  /\ pos <= Len(pending_items)
  /\ LET sid == pending_items[pos]
         sc == s_scraped[sid]
         binged_imdb == sc.raw_data.binged_imdb_id
     IN \E ext \in (IF TruthyS(binged_imdb)
                     THEN get_details_by_imdb(binged_imdb) \ raising
                     ELSE {Absent}) :
        \E qry \in (IF ext.kind = "absent" THEN search_by_query \ raising
                     ELSE {Absent}) :
        \E pickId \in First(id_hits(media_items, match_data(sc, ext, qry))) :
        \E pickUrl \in (IF pickId = 0 THEN First(url_hits(media_items, sc.source_url))
                         ELSE {0}) :
          LET r == record_step(sid, ext, qry, pickId, pickUrl)
          IN /\ r.entry.created => Len(s_media) < MaxItems
             /\ s_scraped' = r.scraped
             /\ s_media' = r.media
             /\ batch_tmdb_map' = r.tmap
             /\ batch_imdb_map' = r.imap
             /\ batch_url_map' = r.umap
             /\ trail' = Append(trail, r.entry)
             /\ IF flush_each
                THEN /\ scraped_items' = r.scraped
                     /\ media_items' = r.media
                ELSE UNCHANGED dbvars
  /\ pos' = pos + 1
  /\ UNCHANGED <<pc, pending_items, outcome, quiet, lastMeta, snap, sched, cycle, unit>>

ProcessRecord_commit_each == process_record(TRUE, {})

ProcessRecord == process_record(FALSE, {})

\* the same step in an environment whose resolver calls never raise
ProcessRecordNoRaise == process_record(FALSE, {Raise})

\* a flush against a table without the unique indexes
flush_media_unchecked(db, sess, i) == [ok |-> TRUE, rows |-> sess]

\* the flush of `await self.db.commit()` on media_items: the UPDATEs of the
\* loaded rows in primary-key order, then the INSERTs in the order of db.add,
\* each statement checked against the unique indexes.  ok = FALSE: IntegrityError.
RECURSIVE flush_media(_, _, _)
flush_media(db, sess, i) ==
  IF i > Len(sess) THEN [ok |-> TRUE, rows |-> db]
  ELSE LET next == IF i <= Len(db) THEN [db EXCEPT ![i] = sess[i]]
                   ELSE Append(db, sess[i])
       IN IF UniqueIds(next) THEN flush_media(next, sess, i + 1)
          ELSE [ok |-> FALSE, rows |-> db]

\* lastMeta after a committed batch: per URL of the batch, the answer its
\* record was promoted with (forgotten when the record ended in ERROR)
meta_after(tr) ==
  [u \in URLs |->
     IF \E k \in DOMAIN tr : tr[k].url = u
     THEN LET k == CHOOSE k \in DOMAIN tr : tr[k].url = u
          IN IF tr[k].fault THEN NoMeta ELSE tr[k].meta
     ELSE lastMeta[u]]

\* "Commit after the batch": all of the batch's changes become visible at
\* once and the loop goes back to the select, or the commit raises and the
\* exception leaves process_scraped_items (the session is closed by
\* `async with AsyncSessionLocal()`, which rolls the transaction back).
commit_batch(track) ==
  /\ pc = "loop"
  /\ pos > Len(pending_items)
  /\ LET f == flush_media(media_items, s_media, 1)
     IN IF f.ok
        THEN /\ media_items' = s_media
             /\ scraped_items' = s_scraped
             /\ pc' = "select"
             /\ outcome' = [outcome EXCEPT !.result = "committed"]
             /\ lastMeta' = IF track THEN meta_after(trail) ELSE lastMeta
             /\ UNCHANGED snap
        ELSE /\ pc' = "idle"
             /\ outcome' = [outcome EXCEPT !.result = "IntegrityError"]
             /\ UNCHANGED <<dbvars, lastMeta, snap>>
  /\ pending_items' = <<>>
  /\ pos' = 1
  /\ s_scraped' = <<>>
  /\ s_media' = <<>>
  /\ batch_tmdb_map' = EmptyMap
  /\ batch_imdb_map' = EmptyMap
  /\ batch_url_map' = EmptyMap
  /\ trail' = <<>>
  /\ UNCHANGED <<quiet, sched, cycle, unit>>

CommitBatch == commit_batch(FALSE)

\* the same step, also recording the answers the batch was promoted with
CommitBatchTracked == commit_batch(TRUE)

\* the process stops, or an exception escapes, between the select and the
\* commit: the session's uncommitted work is gone
Crash ==
  /\ pc = "loop"
  /\ pc' = "idle"
  /\ outcome' = [outcome EXCEPT !.result = "crashed", !.processed = pos - 1]
  /\ pending_items' = <<>>
  /\ pos' = 1
  /\ s_scraped' = <<>>
  /\ s_media' = <<>>
  /\ batch_tmdb_map' = EmptyMap
  /\ batch_imdb_map' = EmptyMap
  /\ batch_url_map' = EmptyMap
  /\ trail' = <<>>
  /\ UNCHANGED <<dbvars, quiet, lastMeta, snap, sched, cycle, unit>>

(***************************************************************************)
(* Specification of the buffer and the promotion drain: any sequence of    *)
(* _save_raw_batch and process_scraped_items calls on an initially empty   *)
(* database (init_db creates empty tables).                                *)
(***************************************************************************)
SchedIdle ==
  [app |-> "down", clock |-> 0, fires |-> 0, skipped |-> 0,
   startup |-> "none", job |-> "none"]

NoUnit == [op |-> "none"]

Runs == {"startup", "job"}

\* Python values whose type decides what the code does with them
PyInt(n) == [t |-> "int", n |-> n, s |-> ""]
PyStr(x) == [t |-> "str", n |-> 0, s |-> x]

NoCall == [session |-> PyStr(""), page_number |-> PyStr(""), category |-> ""]

\* a run that has not started
NoRun ==
  [at |-> "none", kind |-> MOVIE, mode |-> "none", max_pages |-> 0, page_num |-> 0,
   call |-> NoCall, requests |-> 0, activity |-> -1, ended |-> "none",
   count |-> -1]

Init ==
  /\ scraped_items = <<>>
  /\ media_items = <<>>
  /\ pc = "idle"
  /\ pending_items = <<>>
  /\ pos = 1
  /\ s_scraped = <<>>
  /\ s_media = <<>>
  /\ batch_tmdb_map = EmptyMap
  /\ batch_imdb_map = EmptyMap
  /\ batch_url_map = EmptyMap
  /\ trail = <<>>
  /\ outcome = NoOutcome
  /\ quiet = FALSE
  /\ lastMeta = [u \in URLs |-> NoMeta]
  /\ snap = <<<<>>, <<>>>>
  /\ sched = SchedIdle
  /\ cycle = [r \in Runs |-> NoRun]
  /\ unit = NoUnit

SaveBatch ==
  \E media_type \in MediaType : \E items \in SeqUpTo(ListingsOf(media_type), MaxIn) :
    /\ save_raw_batch(items, media_type)
    /\ UNCHANGED unit

Next ==
  \/ SaveBatch
  \/ process_scraped_items
  \/ SelectBatch
  \/ ProcessRecord
  \/ CommitBatch
  \/ Crash

Spec == Init /\ [][Next]_vars

(***************************************************************************)
(* Re-promotion of re-scraped listings: one listing per _save_raw_batch   *)
(* call, a resolver that answers every call (with metadata or None), and   *)
(* the history of the answers each listing was last promoted with.         *)
(***************************************************************************)
SaveOne ==
  \E item_data \in Listings :
    /\ save_raw_batch(<<item_data>>, kind_of(item_data.binged_url))
    /\ UNCHANGED unit

NextRepeat ==
  \/ SaveOne
  \/ process_scraped_items
  \/ SelectBatch
  \/ ProcessRecordNoRaise
  \/ CommitBatchTracked

SpecRepeat == Init /\ [][NextRepeat]_vars

(***************************************************************************)
(* _save_raw_batch on a buffer that already holds records in any status,   *)
(* with listings the source shows unchanged or changed (other title, year, *)
(* platform and payload under the same URL), followed by the select of the *)
(* next drain.                                                             *)
(***************************************************************************)
\* the listing of URL u after the source changed what it shows for it
Relisted(u) ==
  [Listing(u) EXCEPT !.title = "N" \o ToString(u), !.year = 2010 + u,
                     !.platform = "Q" \o ToString(u),
                     !.raw_data = [languages |-> "Tamil"]]

\* source URLs of this buffer: one film and two shows
SaveUrls == 1..(MaxUrl + 1)

\* what scrape_page can return for the category of media_type
ShownListings(media_type) ==
  {Listing(u) : u \in {v \in SaveUrls : kind_of(v) = media_type}}
    \cup {Relisted(u) : u \in {v \in SaveUrls : kind_of(v) = media_type}}

\* the record of URL u as an earlier cycle left it, in status st
stored_row(u, st) ==
  [new_scraped(Listing(u), kind_of(u)) EXCEPT
     !.scrape_status = st,
     !.error_message = IF st = ERROR THEN "boom" ELSE None]

\* buffers with at most one record per URL
StoredTables ==
  {rows \in UNION {[1..n -> {stored_row(u, st) : u \in SaveUrls, st \in ScrapeStatus}] :
                     n \in 0..MaxUrl} : UniqueUrls(rows)}

InitSave ==
  /\ scraped_items \in StoredTables
  /\ media_items = <<>>
  /\ pc = "idle"
  /\ pending_items = <<>>
  /\ pos = 1
  /\ s_scraped = <<>>
  /\ s_media = <<>>
  /\ batch_tmdb_map = EmptyMap
  /\ batch_imdb_map = EmptyMap
  /\ batch_url_map = EmptyMap
  /\ trail = <<>>
  /\ outcome = NoOutcome
  /\ quiet = FALSE
  /\ lastMeta = [u \in URLs |-> NoMeta]
  /\ snap = <<scraped_items, <<>>>>
  /\ sched = SchedIdle
  /\ cycle = [r \in Runs |-> NoRun]
  /\ unit = NoUnit

\* one _save_raw_batch call, its arguments, the buffer it found and what it
\* returned kept in `unit`
SaveShown ==
  \E media_type \in MediaType : \E items \in SeqUpTo(ShownListings(media_type), MaxIn) :
    /\ save_raw_batch(items, media_type)
    /\ unit' = [op |-> "save", items |-> items, media_type |-> media_type,
                before |-> scraped_items, result |-> outcome'.result,
                activity |-> outcome'.activity]

NextSave ==
  \/ SaveShown
  \/ process_scraped_items
  \/ SelectBatch

SpecSave == InitSave /\ [][NextSave]_vars

\* process_scraped_items alone on such a buffer of the listings of URLs
InitDrain ==
  /\ InitSave
  /\ \A i \in DOMAIN scraped_items : scraped_items[i].source_url \in URLs

NextDrain ==
  \/ process_scraped_items
  \/ SelectBatch
  \/ ProcessRecord
  \/ CommitBatch
  \/ Crash

SpecDrain == InitDrain /\ [][NextDrain]_vars

(***************************************************************************)
(* The UPDATE branch on its own: an existing MediaItem as the dashboard    *)
(* and the API can have left it (any status, texts and ids set or not), a  *)
(* PENDING record matched to it, and the resolver's answer for the record. *)
(***************************************************************************)
\* MediaItems the UPDATE branch can find
ExistingItems ==
  {[title |-> "Old", year |-> 1980, media_type |-> MOVIE, language |-> l,
    tmdb_id |-> t, imdb_id |-> i, overview |-> o, poster_url |-> p,
    backdrop_url |-> b, genres |-> <<>>, binged_url |-> 1, platform |-> "P1",
    streaming_date |-> None, status |-> st] :
     l \in {None, "Tamil"}, t \in {NoId, 1}, i \in {None, "tt1"},
     o \in {None, "A"}, p \in {None, "pA"}, b \in {None, "bA"}, st \in MediaStatus}

\* answers of the resolver: None, or a dict whose ids and texts are each
\* present, None or empty
ResolvedAnswers ==
  {Absent} \cup
  {[Meta(t, i) EXCEPT !.overview = o, !.poster_url = p, !.backdrop_url = b] :
     t \in {NoId, 2}, i \in {None, "tt2"},
     o \in {None, "", "B"}, p \in {None, "pB"}, b \in {None, "bB"}}

\* PENDING records as _save_raw_batch stores them, with and without languages
MatchedRecords ==
  {[new_scraped(Listing(2), SERIES) EXCEPT !.raw_data.languages = l] :
     l \in {"", "Hindi"}}

\* lines 273-303 for one existing item, one answer and one record
MergeUnit ==
  /\ unit.op = "none"
  /\ \E e \in ExistingItems : \E m \in ResolvedAnswers : \E sc \in MatchedRecords :
       unit' = [op |-> "merge", existing_media |-> e, match_data |-> m, scraped |-> sc,
                out |-> merged_media(e, m, sc)]
  /\ UNCHANGED <<dbvars, sessvars, histvars, sched, cycle>>

SpecMerge == Init /\ [][MergeUnit]_vars

(***************************************************************************)
(* Step 2 of the loop body on its own: a PENDING record, with or without   *)
(* binged_imdb_id in its payload, and the answers of the resolver.         *)
(***************************************************************************)
\* PENDING records as _save_raw_batch stores them (the payload holds
\* binged_imdb_id only when the listing had one; year 0 stands for None)
ResolvedRecords ==
  {[new_scraped(Listing(u), k) EXCEPT !.raw_data.binged_imdb_id = b, !.year = y] :
     u \in URLs, k \in MediaType, b \in {None, "tt1"}, y \in {0, 2001}}

ResolveUnit ==
  /\ \E sc \in ResolvedRecords :
     \E ext \in (IF TruthyS(sc.raw_data.binged_imdb_id)
                 THEN get_details_by_imdb(sc.raw_data.binged_imdb_id)
                 ELSE {Absent}) :
     \E qry \in (IF ext.kind = "absent" THEN search_by_query ELSE {Absent}) :
       unit' = [op |-> "resolve", scraped |-> sc, ext |-> ext, qry |-> qry,
                calls |-> resolver_calls(sc, ext, qry),
                match_data |-> match_data(sc, ext, qry)]
  /\ UNCHANGED <<dbvars, sessvars, histvars, sched, cycle>>

SpecResolve == Init /\ [][ResolveUnit]_vars

(***************************************************************************)
(* Scheduling of the daily cycle (main.py) and the cycle itself            *)
(* (run_daily_scan, _scrape_phase, BingedScraper.scrape_page).             *)
(* sched.startup is the position of the task created by lifespan,          *)
(* sched.job that of the running instance of the scheduler job: "none",    *)
(* then the three awaits of run_daily_scan ("scrape_movie",                *)
(* "scrape_series", "process"), then "done" / "none".  cycle[r] says where *)
(* run r stands inside its scrape phase.                                   *)
(***************************************************************************)
Running == {"scrape_movie", "scrape_series", "process"}

\* run_daily_scan has been entered: _scrape_phase(MediaType.MOVIE) awaits its count
start_run == [NoRun EXCEPT !.at = "count"]

\* results of _get_db_count(ScrapedItem, media_type) the phase is followed for
Counts == {0, BackfillBelow - 1, BackfillBelow}

\* category_str of _scrape_phase
category_str(media_type) == IF media_type = MOVIE THEN "movie" ELSE "series"

\* the parameters of scrape_page(self, session, page_number, category="movie")
\* as the call `self.scraper.scrape_page(page_num, category_str)` binds them
scrape_page_call(page_num, category) ==
  [session |-> PyInt(page_num), page_number |-> PyStr(category), category |-> "movie"]

\* BingedScraper.scrape_page up to its return: `page_number + 1` (evaluated for
\* the debug message before any request) raises TypeError unless page_number
\* is an int; otherwise one POST for `length` listings from offset
\* page_number * 50 in the Binged category, answered with any list (empty
\* when _fetch gives nothing)
scrape_page(session, page_number, category) ==
  IF page_number.t # "int"
  THEN {[kind |-> "raise", text |-> "TypeError", items |-> <<>>,
         binged_category |-> "", start |-> 0]}
  ELSE {[kind |-> "return", text |-> "", items |-> items,
         binged_category |-> IF category = "movie" THEN "Film" ELSE "Tv show",
         start |-> page_number.n * PageLength] : items \in SeqUpTo(Listings, MaxIn)}

\* the next await of run_daily_scan after phase ph; `last` when it returns
next_phase(ph, last) ==
  CASE ph = "scrape_movie" -> "scrape_series"
    [] ph = "scrape_series" -> "process"
    [] OTHER -> last

\* _scrape_phase returns: run_daily_scan goes on to its next await
end_phase(c, ph, last, rows) ==
  [phase |-> next_phase(ph, last),
   c |-> IF ph = "scrape_movie"
         THEN [start_run EXCEPT !.kind = SERIES]
         ELSE [c EXCEPT !.at = "drain", !.call = NoCall],
   rows |-> rows]

\* an exception leaves run_daily_scan; run_scheduled_ingestion logs it
fail_run(c, text, last, rows) ==
  [phase |-> last, c |-> [c EXCEPT !.at = "none", !.ended = text], rows |-> rows]

\* top of `for page_num in range(max_pages)` for page_num: the call of
\* scrape_page, or the end of the phase when the range is exhausted
enter_page(c, ph, page_num, last, rows) ==
  IF page_num < c.max_pages
  THEN [phase |-> ph,
        c |-> [c EXCEPT !.at = "fetch", !.page_num = page_num,
                        !.call = scrape_page_call(page_num, category_str(c.kind))],
        rows |-> rows]
  ELSE end_phase(c, ph, last, rows)

\* one step of run_daily_scan in phase ph: the count and mode decision of
\* _scrape_phase, one iteration of its page loop (scrape_page, the two
\* breaks, _save_raw_batch), or the drain.  count is the answer of
\* _get_db_count, res that of scrape_page.
run_step(c, ph, count, res, last, rows) ==
  IF c.at = "count"
  THEN LET mode == IF count < BackfillBelow THEN "BACKFILL" ELSE "MAINTENANCE"
           max_pages == IF count < BackfillBelow THEN MAX_PAGES_BACKFILL
                        ELSE MAX_PAGES_MAINTENANCE
       IN enter_page([c EXCEPT !.mode = mode, !.max_pages = max_pages,
                               !.count = count],
                     ph, 0, last, rows)
  ELSE IF c.at = "fetch"
  THEN IF res.kind = "raise" THEN fail_run(c, res.text, last, rows)
       ELSE LET asked == [c EXCEPT !.requests = @ + 1]
            IN IF res.items = <<>> THEN end_phase(asked, ph, last, rows)
               ELSE LET emap == existing_items_map(rows,
                                  {res.items[k].binged_url : k \in DOMAIN res.items})
                        done == save_loop(res.items, 1, rows, emap, c.kind, 0)
                        saved == [asked EXCEPT !.activity = done.activity_count]
                    IN IF ~UniqueUrls(done.rows)
                       THEN fail_run(asked, "IntegrityError", last, rows)
                       ELSE IF c.mode = "MAINTENANCE" /\ done.activity_count = 0
                       THEN end_phase(saved, ph, last, done.rows)
                       ELSE enter_page(saved, ph, c.page_num + 1, last, done.rows)
  ELSE [phase |-> last, c |-> [c EXCEPT !.at = "none", !.ended = "completed"],
        rows |-> rows]

\* lifespan up to `yield`: init_db, add_job(interval, hours=interval),
\* scheduler.start(), asyncio.create_task(run_scheduled_ingestion())
lifespan ==
  /\ sched.app = "down"
  /\ sched' = [sched EXCEPT !.app = "up", !.clock = 0, !.startup = "scrape_movie"]
  /\ cycle' = [cycle EXCEPT !.startup = start_run]
  /\ UNCHANGED <<dbvars, sessvars, histvars, unit>>

\* an hour passes with the interval not yet elapsed
Tick ==
  /\ sched.app = "up"
  /\ sched.clock < INGESTION_INTERVAL_HOURS
  /\ sched' = [sched EXCEPT !.clock = @ + 1]
  /\ UNCHANGED <<dbvars, sessvars, histvars, cycle, unit>>

\* the interval trigger fires.  The job is added without max_instances, so
\* the scheduler runs at most one instance of it: a firing that finds the
\* previous instance running is skipped.  The task created by lifespan is
\* no instance of the job.
IntervalFire ==
  /\ sched.app = "up"
  /\ sched.clock = INGESTION_INTERVAL_HOURS
  /\ sched.fires < MaxFires
  /\ IF sched.job \in Running
     THEN /\ sched' = [sched EXCEPT !.clock = 0, !.fires = @ + 1, !.skipped = @ + 1]
          /\ UNCHANGED cycle
     ELSE /\ sched' = [sched EXCEPT !.clock = 0, !.fires = @ + 1,
                                    !.job = "scrape_movie"]
          /\ cycle' = [cycle EXCEPT !.job = start_run]
  /\ UNCHANGED <<dbvars, sessvars, histvars, unit>>

\* run r of run_scheduled_ingestion takes its next step; `last` is the
\* position it is left in when it ends (by returning, or by the exception
\* run_scheduled_ingestion catches and logs)
RunStep(r, last) ==
  /\ sched.app = "up"
  /\ sched[r] \in Running
  /\ \E count \in (IF cycle[r].at = "count" THEN Counts ELSE {0}) :
     \E res \in (IF cycle[r].at = "fetch"
                 THEN scrape_page(cycle[r].call.session, cycle[r].call.page_number,
                                  cycle[r].call.category)
                 ELSE {[kind |-> "none"]}) :
       LET n == run_step(cycle[r], sched[r], count, res, last, scraped_items)
       IN /\ sched' = [sched EXCEPT ![r] = n.phase]
          /\ cycle' = [cycle EXCEPT ![r] = n.c]
          /\ scraped_items' = n.rows
  /\ UNCHANGED <<media_items, sessvars, histvars, unit>>

\* the task created by lifespan
StartupRunStep == RunStep("startup", "done")

\* the running instance of the scheduler job
JobRunStep == RunStep("job", "none")

\* lifespan after `yield`: scheduler.shutdown()
Shutdown ==
  /\ sched.app = "up"
  /\ sched' = [sched EXCEPT !.app = "stopped"]
  /\ UNCHANGED <<dbvars, sessvars, histvars, cycle, unit>>

NextSched ==
  \/ lifespan
  \/ Tick
  \/ IntervalFire
  \/ StartupRunStep
  \/ JobRunStep
  \/ Shutdown

SpecSched == Init /\ [][NextSched]_vars

(***************************************************************************)
(* The retrying HTTP calls: BingedScraper._fetch and MetadataService._fetch *)
(* as functions of what the server answers to each attempt.  A call is     *)
(* followed through the requests it sends and the sleeps it awaits, in     *)
(* order; times are in milliseconds.                                       *)
(***************************************************************************)
\* `retries=3` of both _fetch methods
retries == 3
\* `asyncio.sleep(60)` of BingedScraper._fetch on 429
cooldown_ms == 60000
\* `self.delay = 0.2` of MetadataService
delay_ms == 200
\* the default of `resp.headers.get("Retry-After", 5)`
default_retry_after == 5

\* Retry-After headers of a 429: absent, a number of seconds, an HTTP date
NoHeader == [given |-> FALSE, numeric |-> FALSE, n |-> 0]
Seconds(n) == [given |-> TRUE, numeric |-> TRUE, n |-> n]
HttpDate == [given |-> TRUE, numeric |-> FALSE, n |-> 0]

Status(code) == [kind |-> "status", status |-> code, header |-> NoHeader, keyed |-> TRUE]

\* what one attempt can meet: a response (a 200 whose JSON has or lacks the
\* "data" key, a 429 with any Retry-After, 404, the retried 5xx codes, a
\* 5xx code outside `[500, 502, 503, 504]`), aiohttp.ClientError, or
\* asyncio.TimeoutError
FetchOutcomes ==
  {Status(200), [Status(200) EXCEPT !.keyed = FALSE], Status(404),
   Status(500), Status(503), Status(501)}
    \cup {[Status(429) EXCEPT !.header = h] : h \in {NoHeader, Seconds(7), HttpDate}}
    \cup {[kind |-> k, status |-> 0, header |-> NoHeader, keyed |-> FALSE] :
            k \in {"ClientError", "TimeoutError"}}

Request(attempt) == [ev |-> "request", attempt |-> attempt, why |-> "", ms |-> 0]
Sleep(attempt, why, ms) == [ev |-> "sleep", attempt |-> attempt, why |-> why, ms |-> ms]

\* 2**attempt seconds
Backoff(attempt) == Sleep(attempt, "backoff", (2 ^ attempt) * 1000)

Fetched(result, outs, attempt, trace) ==
  [result |-> result,
   keyed |-> result = "data" /\ outs[attempt].keyed,
   trace |-> trace]

\* a _fetch that retries at once, without `if attempt < retries: sleep`
RECURSIVE binged_fetch_no_backoff(_, _, _)
binged_fetch_no_backoff(outs, attempt, trace) ==
  IF attempt > retries THEN Fetched("none", outs, retries, trace)
  ELSE LET o == outs[attempt]
           sent == Append(trace, Request(attempt))
       IN IF o.kind = "status" /\ o.status = 200
          THEN Fetched("data", outs, attempt, sent)
          ELSE IF o.kind = "status" /\ o.status = 429
          THEN binged_fetch_no_backoff(outs, attempt + 1,
                                       Append(sent, Sleep(attempt, "cooldown", cooldown_ms)))
          ELSE IF o.kind = "status" /\ o.status \notin {500, 502, 503, 504}
          THEN Fetched("none", outs, attempt, sent)
          ELSE binged_fetch_no_backoff(outs, attempt + 1, sent)

\* a _fetch that lets the exception of its last attempt escape
RECURSIVE binged_fetch_raising(_, _, _)
binged_fetch_raising(outs, attempt, trace) ==
  IF attempt > retries THEN Fetched("none", outs, retries, trace)
  ELSE LET o == outs[attempt]
           sent == Append(trace, Request(attempt))
           slept == IF o.kind = "status" /\ o.status = 429
                    THEN Append(sent, Sleep(attempt, "cooldown", cooldown_ms))
                    ELSE sent
       IN IF o.kind = "status" /\ o.status = 200
          THEN Fetched("data", outs, attempt, sent)
          ELSE IF o.kind = "status" /\ o.status \notin {429, 500, 502, 503, 504}
          THEN Fetched("none", outs, attempt, sent)
          ELSE IF o.kind # "status" /\ attempt = retries
          THEN Fetched("raise", outs, attempt, sent)
          ELSE binged_fetch_raising(outs, attempt + 1,
                                    IF attempt < retries
                                    THEN Append(slept, Backoff(attempt)) ELSE slept)

\* BingedScraper._fetch from `attempt` on (the GET and the POST branch treat
\* the status alike): 200 returns the body; 429 sleeps 60 s; 500, 502, 503
\* and 504 only log; any other status returns None; ClientError and
\* TimeoutError are caught.  What did not return then reaches
\* `if attempt < retries: await asyncio.sleep(2**attempt)`, and the loop's
\* exhaustion returns None.
RECURSIVE binged_fetch(_, _, _)
binged_fetch(outs, attempt, trace) ==
  IF attempt > retries THEN Fetched("none", outs, retries, trace)
  ELSE LET o == outs[attempt]
           sent == Append(trace, Request(attempt))
           slept == IF o.kind = "status" /\ o.status = 429
                    THEN Append(sent, Sleep(attempt, "cooldown", cooldown_ms))
                    ELSE sent
       IN IF o.kind = "status" /\ o.status = 200
          THEN Fetched("data", outs, attempt, sent)
          ELSE IF o.kind = "status" /\ o.status \notin {429, 500, 502, 503, 504}
          THEN Fetched("none", outs, attempt, sent)
          ELSE binged_fetch(outs, attempt + 1,
                            IF attempt < retries
                            THEN Append(slept, Backoff(attempt)) ELSE slept)

\* a _fetch that treats 404 like any other unexpected status
RECURSIVE metadata_fetch_retry_404(_, _, _)
metadata_fetch_retry_404(outs, attempt, trace) ==
  IF attempt > retries THEN Fetched("none", outs, retries, trace)
  ELSE LET o == outs[attempt]
           sent == trace \o <<Sleep(attempt, "delay", delay_ms), Request(attempt)>>
       IN IF o.kind = "status" /\ o.status = 200
          THEN Fetched("data", outs, attempt, sent)
          ELSE IF o.kind = "status" /\ o.status = 429
          THEN IF o.header.given /\ ~o.header.numeric
               THEN Fetched("raise", outs, attempt, sent)
               ELSE LET retry_after == IF o.header.given THEN o.header.n
                                       ELSE default_retry_after
                    IN metadata_fetch_retry_404(outs, attempt + 1,
                         Append(sent, Sleep(attempt, "cooldown", retry_after * 1000)))
          ELSE metadata_fetch_retry_404(outs, attempt + 1,
                              IF attempt < retries
                              THEN Append(sent, Backoff(attempt)) ELSE sent)

\* MetadataService._fetch from `attempt` on: every attempt first sleeps
\* self.delay; 200 returns the body; 429 sleeps int(Retry-After, default 5)
\* seconds and `continue`s (int() of a header that is no number raises
\* ValueError, which the except clause does not catch); 404 returns None;
\* any other status only logs; ClientError and TimeoutError are caught.
\* What neither returned nor continued reaches
\* `if attempt < retries: await asyncio.sleep(2**attempt)`.
RECURSIVE metadata_fetch(_, _, _)
metadata_fetch(outs, attempt, trace) ==
  IF attempt > retries THEN Fetched("none", outs, retries, trace)
  ELSE LET o == outs[attempt]
           sent == trace \o <<Sleep(attempt, "delay", delay_ms), Request(attempt)>>
       IN IF o.kind = "status" /\ o.status = 200
          THEN Fetched("data", outs, attempt, sent)
          ELSE IF o.kind = "status" /\ o.status = 429
          THEN IF o.header.given /\ ~o.header.numeric
               THEN Fetched("raise", outs, attempt, sent)
               ELSE LET retry_after == IF o.header.given THEN o.header.n
                                       ELSE default_retry_after
                    IN metadata_fetch(outs, attempt + 1,
                         Append(sent, Sleep(attempt, "cooldown", retry_after * 1000)))
          ELSE IF o.kind = "status" /\ o.status = 404
          THEN Fetched("none", outs, attempt, sent)
          ELSE metadata_fetch(outs, attempt + 1,
                              IF attempt < retries
                              THEN Append(sent, Backoff(attempt)) ELSE sent)

\* scrape_page after its list request: `if not data or "data" not in data:
\* return []`, otherwise the listings built from data["data"]
page_of(data) ==
  IF data.result = "raise" THEN "raise"
  ELSE IF data.result = "none" \/ ~data.keyed THEN "empty"
  ELSE "listings"

\* the attempts a fetch sent a request for, in order
RequestsOf(f) ==
  LET Ix == {k \in DOMAIN f.trace : f.trace[k].ev = "request"}
  IN [a \in 1..Cardinality(Ix) |->
        f.trace[CHOOSE k \in Ix : Cardinality({l \in Ix : l <= k}) = a].attempt]

\* the sleeps of a fetch that follow the request of attempt a and precede
\* the next request, without the pacing delay
WaitsAfter(f, a) ==
  LET at == CHOOSE k \in DOMAIN f.trace :
              f.trace[k].ev = "request" /\ f.trace[k].attempt = a
      Later == {k \in DOMAIN f.trace : k > at /\ f.trace[k].ev = "request"}
      Ix == {k \in DOMAIN f.trace :
               /\ k > at
               /\ \A l \in Later : k < l
               /\ f.trace[k].ev = "sleep"
               /\ f.trace[k].why # "delay"}
  IN [n \in 1..Cardinality(Ix) |->
        LET k == CHOOSE k \in Ix : Cardinality({l \in Ix : l <= k}) = n
        IN [why |-> f.trace[k].why, ms |-> f.trace[k].ms]]

\* one call of each _fetch on the same answers, and the page scrape_page
\* makes of the Source Fetcher's
FetchUnit ==
  /\ unit = NoUnit
  /\ \E outs \in [1..retries -> FetchOutcomes] :
       LET b == binged_fetch(outs, 1, <<>>)
       IN unit' = [op |-> "fetch", outs |-> outs, binged |-> b,
                   tmdb |-> metadata_fetch(outs, 1, <<>>), page |-> page_of(b)]
  /\ UNCHANGED <<dbvars, sessvars, histvars, sched, cycle>>

SpecFetch == Init /\ [][FetchUnit]_vars

(***************************************************************************)
(* Metadata Resolver: get_details_by_tmdb_id, get_details_by_imdb and      *)
(* _format_result as functions of what TMDB answers to the calls of _fetch *)
(* and of what Cinemeta answers.                                           *)
(***************************************************************************)
\* a date string: its text, its len() and int() of its first four characters
DateStr(text, len, head) == [text |-> text, len |-> len, head |-> head]
NoDate == DateStr(None, 0, 0)

\* a TMDB object (an entry of movie_results / tv_results, or the body of
\* /movie/{id} and /tv/{id}); a key the object lacks is None here
TmdbObject(id) ==
  [id |-> id, title |-> None, name |-> None, release_date |-> NoDate,
   first_air_date |-> NoDate, overview |-> None, poster_path |-> None,
   backdrop_path |-> None, has_external_ids |-> FALSE, external_imdb |-> None,
   imdb_id |-> None, genres |-> <<>>]

\* the item get_details_by_tmdb_id hands to _format_result: {"id": tmdb_id}
BareItem(tmdb_id) == TmdbObject(tmdb_id)

\* an entry of movie_results and one of tv_results of /find
FoundMovie ==
  [TmdbObject(1) EXCEPT !.title = "Film", !.release_date = DateStr("2024-06-01", 10, 2024),
                        !.overview = "short", !.poster_path = "/p.jpg"]
FoundShow ==
  [TmdbObject(2) EXCEPT !.name = "Show", !.first_air_date = DateStr("2019-01-05", 10, 2019)]

\* the body of /movie/{id} or /tv/{id}?append_to_response=external_ids
DetailsOf(id, media_type) ==
  IF media_type = MOVIE
  THEN [TmdbObject(id) EXCEPT !.title = "Film (details)",
                              !.release_date = DateStr("2024-06-01", 10, 2024),
                              !.overview = "long", !.poster_path = "/p.jpg",
                              !.backdrop_path = "/b.jpg", !.has_external_ids = TRUE,
                              !.external_imdb = "tt1", !.genres = <<"Drama">>]
  ELSE [TmdbObject(id) EXCEPT !.name = "Show (details)",
                              !.first_air_date = DateStr("201", 3, 0),
                              !.imdb_id = "tt1"]

\* `x or y` on values that are None when missing
Or(x, y) == IF TruthyS(x) THEN x ELSE y

\* answers to the three attempts of a _fetch call the resolver is followed
\* for: 200 at once, 200 after a 500, 404, three 500s, three network errors
LookupOutcomes ==
  {[a \in 1..retries |-> Status(200)],
   [a \in 1..retries |-> IF a = 1 THEN Status(500) ELSE Status(200)],
   [a \in 1..retries |-> Status(404)],
   [a \in 1..retries |-> Status(500)],
   [a \in 1..retries |->
      [kind |-> "ClientError", status |-> 0, header |-> NoHeader, keyed |-> FALSE]]}

\* _fetch(session, endpoint, params) answered outs: the body, or None
tmdb_fetch(outs, body) ==
  LET f == metadata_fetch(outs, 1, <<>>)
  IN [got |-> f.result = "data",
      body |-> IF f.result = "data" THEN body ELSE TmdbObject(NoId),
      requests |-> Len(RequestsOf(f)),
      last |-> outs[Len(RequestsOf(f))].status]

\* MetadataService._format_result(session, item, media_type) when its
\* details call answers `details`: the fields come from the details, or
\* from item when the details are None, and a dict is returned either way
format_result(item, media_type, details) ==
  LET source == IF details.got THEN details.body ELSE item
      imdb_id == IF details.got /\ details.body.has_external_ids
                 THEN details.body.external_imdb
                 ELSE IF details.got THEN details.body.imdb_id ELSE None
      date_str == IF source.release_date.text # None /\ source.release_date.text # ""
                  THEN source.release_date ELSE source.first_air_date
      year == IF date_str.text # None /\ date_str.text # "" /\ date_str.len >= 4
              THEN date_str.head ELSE 0
  IN [Meta(item.id, imdb_id)
        EXCEPT !.title = Or(source.title, source.name),
               !.year = year,
               !.overview = source.overview,
               !.poster_url = IF TruthyS(source.poster_path)
                              THEN "w500" \o source.poster_path ELSE None,
               !.backdrop_url = IF TruthyS(source.backdrop_path)
                                THEN "w1280" \o source.backdrop_path ELSE None,
               !.genres = IF details.got THEN details.body.genres ELSE <<>>]

\* the endpoint _format_result asks for the details
details_endpoint(tmdb_id, media_type) ==
  [api |-> IF media_type = MOVIE THEN "/movie/" ELSE "/tv/", id |-> tmdb_id]

\* get_details_by_tmdb_id(tmdb_id, media_type): `result` of _format_result
\* for {"id": tmdb_id}, returned whether `if result:` holds or not
get_details_by_tmdb_id(tmdb_id, media_type, details) ==
  format_result(BareItem(tmdb_id), media_type, details)

\* one direct lookup of an id, its details call answered in any of the ways
\* of LookupOutcomes
TmdbLookup ==
  /\ unit = NoUnit
  /\ \E tmdb_id \in TmdbIds : \E media_type \in MediaType : \E outs \in LookupOutcomes :
       LET details == tmdb_fetch(outs, DetailsOf(tmdb_id, media_type))
       IN unit' = [op |-> "by_tmdb", tmdb_id |-> tmdb_id, media_type |-> media_type,
                   outs |-> outs, endpoint |-> details_endpoint(tmdb_id, media_type),
                   details |-> details,
                   out |-> get_details_by_tmdb_id(tmdb_id, media_type, details)]
  /\ UNCHANGED <<dbvars, sessvars, histvars, sched, cycle>>

\* bodies of /find/{imdb_id}?external_source=imdb_id
FindBodies ==
  {[movie_results |-> m, tv_results |-> t] :
     m \in {<<>>, <<FoundMovie>>}, t \in {<<>>, <<FoundShow>>}}

\* what _fetch_cinemeta(imdb_id, media_type) returns: its dict, or None
\* (status other than 200, no "meta" in the body, any exception)
CinemetaAnswers(imdb_id) ==
  {Absent, [Meta(NoId, imdb_id) EXCEPT !.title = "Cine", !.year = 2020]}

\* the calls get_details_by_imdb makes
find_call(imdb_id) == [fn |-> "_fetch", api |-> "/find/", id |-> imdb_id]
details_call(tmdb_id, media_type) ==
  [fn |-> "_fetch", api |-> details_endpoint(tmdb_id, media_type).api,
   id |-> ToString(tmdb_id)]
cinemeta_call(imdb_id, media_type) ==
  [fn |-> "_fetch_cinemeta",
   api |-> IF media_type = MOVIE THEN "movie" ELSE "series", id |-> imdb_id]

\* a get_details_by_imdb whose fallback always asks Cinemeta for a movie
details_by_imdb_movie_fallback(imdb_id, media_type, find, details, cinemeta) ==
  LET hit == find.got /\ (find.body.movie_results # <<>> \/ find.body.tv_results # <<>>)
      resolved_type == IF find.got /\ find.body.movie_results # <<>> THEN MOVIE
                       ELSE SERIES
      result == IF resolved_type = MOVIE /\ hit THEN find.body.movie_results[1]
                ELSE IF hit THEN find.body.tv_results[1] ELSE TmdbObject(NoId)
  IN IF hit
     THEN [out |-> format_result(result, resolved_type, details),
           calls |-> <<find_call(imdb_id), details_call(result.id, resolved_type)>>]
     ELSE [out |-> cinemeta,
           calls |-> <<find_call(imdb_id), cinemeta_call(imdb_id, MOVIE)>>]

\* MetadataService.get_details_by_imdb(imdb_id, media_type) when /find
\* answers `find`, the details call `details` and Cinemeta `cinemeta`:
\* movie_results before tv_results decide result and resolved_type; a result
\* is formatted and returned; otherwise Cinemeta is asked when
\* resolved_type (then the media_type asked for) is not None
details_by_imdb(imdb_id, media_type, find, details, cinemeta) ==
  LET movie == find.got /\ find.body.movie_results # <<>>
      show == find.got /\ ~movie /\ find.body.tv_results # <<>>
      result == IF movie THEN find.body.movie_results[1]
                ELSE IF show THEN find.body.tv_results[1] ELSE TmdbObject(NoId)
      resolved_type == IF movie THEN MOVIE ELSE IF show THEN SERIES ELSE media_type
      formatted_result == format_result(result, resolved_type, details)
  IN IF (movie \/ show) /\ Present(formatted_result)
     THEN [out |-> formatted_result,
           calls |-> <<find_call(imdb_id), details_call(result.id, resolved_type)>>]
     ELSE IF resolved_type # None
     THEN [out |-> cinemeta,
           calls |-> (IF movie \/ show
                      THEN <<find_call(imdb_id), details_call(result.id, resolved_type)>>
                      ELSE <<find_call(imdb_id)>>)
                     \o <<cinemeta_call(imdb_id, resolved_type)>>]
     ELSE [out |-> Absent, calls |-> <<find_call(imdb_id)>>]

ImdbLookup ==
  /\ unit = NoUnit
  /\ \E imdb_id \in ImdbIds : \E media_type \in MediaType \cup {None} :
     \E outs \in LookupOutcomes : \E body \in FindBodies :
     \E douts \in LookupOutcomes : \E cinemeta \in CinemetaAnswers(imdb_id) :
       LET find == tmdb_fetch(outs, body)
           hit == IF find.got /\ body.movie_results # <<>> THEN <<FoundMovie.id, MOVIE>>
                  ELSE <<FoundShow.id, SERIES>>
           details == tmdb_fetch(douts, DetailsOf(hit[1], hit[2]))
           r == details_by_imdb(imdb_id, media_type, find, details, cinemeta)
       IN unit' = [op |-> "by_imdb", imdb_id |-> imdb_id, media_type |-> media_type,
                   find |-> find, details |-> details, cinemeta |-> cinemeta,
                   calls |-> r.calls, out |-> r.out]
  /\ UNCHANGED <<dbvars, sessvars, histvars, sched, cycle>>

NextLookup ==
  \/ TmdbLookup
  \/ ImdbLookup

SpecLookup == Init /\ [][NextLookup]_vars

(***************************************************************************)
(* Metadata Resolver: search_by_query and _validate_match as functions of  *)
(* the candidates TMDB's search returns.                                   *)
(***************************************************************************)
\* the year the searches are followed for, and the date strings of the
\* candidates around it
TargetYear == 2020
CandidateDates ==
  {DateStr("2018-03-01", 10, 2018), DateStr("2019-03-01", 10, 2019),
   DateStr("2020-03-01", 10, 2020), DateStr("2021-03-01", 10, 2021),
   DateStr("2022-03-01", 10, 2022), DateStr("", 0, 0)}

\* the i-th entry of "results" of /search/movie (release_date) or
\* /search/tv (first_air_date)
Candidate(i, date, media_type) ==
  IF media_type = MOVIE
  THEN [TmdbObject(i) EXCEPT !.title = "Cand", !.release_date = date]
  ELSE [TmdbObject(i) EXCEPT !.name = "Cand", !.first_air_date = date]

\* answers of a search call: None, or a body whose "results" hold up to
\* MaxIn candidates
SearchAnswers(media_type) ==
  {[got |-> FALSE, results |-> <<>>]}
    \cup {[got |-> TRUE,
           results |-> [i \in DOMAIN dates |-> Candidate(i, dates[i], media_type)]] :
            dates \in SeqUpTo(CandidateDates, MaxIn)}

\* a _validate_match that accepts only the target year itself
validate_match_same_year(item, target_year, media_type) ==
  LET date_str == IF TruthyS(item.release_date.text) THEN item.release_date
                  ELSE item.first_air_date
  IN IF target_year = 0 THEN TRUE
     ELSE IF ~TruthyS(date_str.text) THEN FALSE
     ELSE date_str.head = target_year

\* MetadataService._validate_match(item, target_year, media_type)
validate_match(item, target_year, media_type) ==
  LET date_str == IF TruthyS(item.release_date.text) THEN item.release_date
                  ELSE item.first_air_date
      year == date_str.head
  IN IF target_year = 0 THEN TRUE
     ELSE IF ~TruthyS(date_str.text) THEN FALSE
     ELSE IF media_type = MOVIE
     THEN (IF year >= target_year THEN year - target_year ELSE target_year - year) <= 1
     ELSE year <= target_year

\* the search calls: endpoint, query and the year constraint (0: none)
search_call(title, year, media_type) ==
  [fn |-> "_fetch",
   api |-> IF media_type = MOVIE THEN "/search/movie" ELSE "/search/tv",
   query |-> title,
   primary_release_year |-> IF media_type = MOVIE /\ year # 0 THEN year ELSE 0]

\* a search_by_query that formats the first candidate without validating it
query_steps_first_candidate(title, year, media_type, first, second, details) ==
  LET data == IF ~(first.got /\ first.results # <<>>) /\ media_type = SERIES
              THEN second ELSE first
  IN IF ~(data.got /\ data.results # <<>>)
     THEN [out |-> Absent, picked |-> 0, calls |-> <<search_call(title, year, media_type)>>]
     ELSE [out |-> format_result(data.results[1], media_type, details), picked |-> 1,
           calls |-> <<search_call(title, year, media_type)>>]

\* MetadataService.search_by_query(title, year, media_type) when its search
\* call answers `first`, the repeated search (series only, after an empty
\* first answer) `second`, and the details call `details`.  picked is the
\* index of best_match in the candidates (0: none).
query_steps(title, year, media_type, first, second, details) ==
  LET again == ~(first.got /\ first.results # <<>>) /\ media_type = SERIES
      data == IF again THEN second ELSE first
      calls == <<search_call(title, year, media_type)>>
                 \o (IF again
                     THEN <<[search_call(title, year, media_type)
                               EXCEPT !.primary_release_year = 0]>>
                     ELSE <<>>)
      candidates == data.results
      Valid == {i \in DOMAIN candidates : validate_match(candidates[i], year, media_type)}
      best == IF Valid = {} THEN 0 ELSE CHOOSE i \in Valid : \A j \in Valid : i <= j
  IN IF ~(data.got /\ data.results # <<>>)
     THEN [out |-> Absent, picked |-> 0, calls |-> calls]
     ELSE IF best # 0
     THEN [out |-> format_result(candidates[best], media_type, details),
           picked |-> best,
           calls |-> Append(calls, [fn |-> "_fetch",
                                    api |-> details_endpoint(best, media_type).api,
                                    query |-> None, primary_release_year |-> 0])]
     ELSE [out |-> Absent, picked |-> 0, calls |-> calls]

\* one search_by_query call
QueryUnit ==
  /\ unit = NoUnit
  /\ \E year \in {0, TargetYear} : \E media_type \in MediaType :
     \E first \in SearchAnswers(media_type) :
     \E second \in (IF ~(first.got /\ first.results # <<>>) /\ media_type = SERIES
                    THEN SearchAnswers(media_type) ELSE {first}) :
     \E got \in BOOLEAN :
       LET data == IF media_type = SERIES THEN second ELSE first
           details == [got |-> got,
                       body |-> IF got THEN DetailsOf(1, media_type) ELSE TmdbObject(NoId)]
           r == query_steps("T1", year, media_type, first, second, details)
       IN unit' = [op |-> "by_query", year |-> year, media_type |-> media_type,
                   first |-> first, candidates |-> data.results, details |-> details,
                   valid |-> [i \in DOMAIN data.results |->
                                validate_match(data.results[i], year, media_type)],
                   picked |-> r.picked, calls |-> r.calls, out |-> r.out]
  /\ UNCHANGED <<dbvars, sessvars, histvars, sched, cycle>>

SpecQuery == Init /\ [][QueryUnit]_vars

(***************************************************************************)
(* Text.  A string is the tuple of its characters, so that lower-casing,   *)
(* substring search, splitting, stripping and the regular expressions of   *)
(* the scraper are computed character by character.                        *)
(***************************************************************************)
UpperCase == <<"A", "B", "C", "D", "E", "F", "G", "H", "I", "J", "K", "L", "M", "N", "O", "P", "Q", "R", "S", "T", "U", "V", "W", "X", "Y", "Z">>
LowerCase == <<"a", "b", "c", "d", "e", "f", "g", "h", "i", "j", "k", "l", "m", "n", "o", "p", "q", "r", "s", "t", "u", "v", "w", "x", "y", "z">>
Digits == {"0", "1", "2", "3", "4", "5", "6", "7", "8", "9"}

\* c.lower()
lower_char(c) ==
  IF \E i \in DOMAIN UpperCase : UpperCase[i] = c
  THEN LowerCase[CHOOSE i \in DOMAIN UpperCase : UpperCase[i] = c]
  ELSE c

\* s.lower()
str_lower(s) == [i \in 1..Len(s) |-> lower_char(s[i])]

\* whitespace (\s) and word characters (\w) of the characters in use
IsSpace(c) == c = " "
IsWord(c) == lower_char(c) \in {LowerCase[i] : i \in DOMAIN LowerCase} \cup Digits \cup {"_"}

\* s[i:] starts with sub
starts_at(s, i, sub) ==
  /\ i + Len(sub) - 1 <= Len(s)
  /\ SubSeq(s, i, i + Len(sub) - 1) = sub

\* `sub in s`
contains(s, sub) == \E i \in 1..(Len(s) + 1) : starts_at(s, i, sub)

\* s.strip()
strip(s) ==
  LET Solid == {i \in DOMAIN s : ~IsSpace(s[i])}
  IN IF Solid = {} THEN <<>>
     ELSE SubSeq(s, CHOOSE i \in Solid : \A j \in Solid : i <= j,
                    CHOOSE i \in Solid : \A j \in Solid : j <= i)

\* s.split(sep): the pieces between the separators, empty pieces included
RECURSIVE split(_, _)
split(s, sep) ==
  LET At == {i \in DOMAIN s : s[i] = sep}
  IN IF At = {} THEN <<s>>
     ELSE LET i == CHOOSE i \in At : \A j \in At : i <= j
          IN <<SubSeq(s, 1, i - 1)>> \o split(SubSeq(s, i + 1, Len(s)), sep)

\* the character references html.unescape meets in these titles
Entities ==
  {[ref |-> <<"&", "a", "m", "p", ";">>, char |-> "&"],
   [ref |-> <<"&", "#", "3", "9", ";">>, char |-> "'"]}

\* html.unescape(s): one pass from the left, each reference replaced by its
\* character
RECURSIVE html_unescape(_)
html_unescape(s) ==
  IF s = <<>> THEN <<>>
  ELSE IF \E e \in Entities : starts_at(s, 1, e.ref)
  THEN LET e == CHOOSE e \in Entities : starts_at(s, 1, e.ref)
       IN <<e.char>> \o html_unescape(SubSeq(s, Len(e.ref) + 1, Len(s)))
  ELSE <<s[1]>> \o html_unescape(SubSeq(s, 2, Len(s)))

\* re.sub(r"\s?\(.*?\)", "", s): from the left, an opening parenthesis, with
\* one whitespace before it if there is one, is removed up to the first
\* closing parenthesis after it; without a closing one nothing matches
RECURSIVE remove_parens(_)
remove_parens(s) ==
  IF s = <<>> THEN <<>>
  ELSE LET open == IF Len(s) >= 2 /\ IsSpace(s[1]) /\ s[2] = "(" THEN 2
                   ELSE IF s[1] = "(" THEN 1 ELSE 0
           Close == {j \in DOMAIN s : j > open /\ s[j] = ")"}
       IN IF open # 0 /\ Close # {}
          THEN remove_parens(SubSeq(s, (CHOOSE j \in Close : \A k \in Close : j <= k) + 1,
                                    Len(s)))
          ELSE <<s[1]>> \o remove_parens(SubSeq(s, 2, Len(s)))

\* (?i)\b(Season|S)\s*\d+ matches at position i of s
season_at(s, i) ==
  /\ i = 1 \/ ~IsWord(s[i - 1])
  /\ \E word \in {<<"s", "e", "a", "s", "o", "n">>, <<"s">>} :
       /\ starts_at(str_lower(s), i, word)
       /\ \E d \in DOMAIN s :
            /\ d >= i + Len(word)
            /\ s[d] \in Digits
            /\ \A k \in (i + Len(word))..(d - 1) : IsSpace(s[k])

\* re.sub(r"(?i)\b(Season|S)\s*\d+.*", "", s): the leftmost match runs to
\* the end of the string, so what is left is the text before it
cut_season(s) ==
  LET At == {i \in DOMAIN s : season_at(s, i)}
  IN IF At = {} THEN s
     ELSE SubSeq(s, 1, (CHOOSE i \in At : \A j \in At : i <= j) - 1)

\* BingedScraper._clean_title(title); NoTitle is a title of None
NoTitle == <<None>>
clean_title(title) ==
  IF title = NoTitle \/ title = <<>> THEN <<>>
  ELSE strip(cut_season(remove_parens(html_unescape(title))))

\* the parts the titles of the check are put together from
TitleHeads ==
  {<<"S", "o", "m", "e", " ", "S", "h", "o", "w">>,
   <<"O", "c", "e", "a", "n", "'", "s">>,
   <<"T", "o", "m", " ", "&", "a", "m", "p", ";", " ", "J", "e", "r", "r", "y">>,
   <<"S">>,
   <<" ", "M", "r", "s">>,
   <<"O", "c", "e", "a", "n", "&", "#", "3", "9", ";", "s">>,
   <<"J", "u", "r", "a", "s", "s", "i", "c", "_", "S">>}
\* parenthesised parts, one of them never closed
TitleParens ==
  {<<>>,
   <<" ", "(", "2", "0", "2", "3", ")">>,
   <<"(", "H", "i", "n", "d", "i", ")">>,
   <<" ", "(", "D", "u", "b">>,
   <<" ", " ", "(", "U", ")", " ", "(", "A", ")">>}
\* season markers, and endings that only look like one
TitleSeasons ==
  {<<>>,
   <<" ", "S", "e", "a", "s", "o", "n", " ", "2">>,
   <<" ", "S", "2">>,
   <<" ", "s", "e", "a", "s", "o", "n", " ", "1", "0">>,
   <<" ", "S", " ", "3">>,
   <<" ", "8">>,
   <<" ", "S", "e", "a", "s", "o", "n", "s", " ", "2">>,
   <<"S", "1">>}
\* what follows the marker
TitleTails ==
  {<<>>,
   <<" ", "F", "i", "n", "a", "l", "e">>,
   <<" ">>}

Titles ==
  {NoTitle, <<>>}
    \cup {h \o p \o s \o t : h \in TitleHeads, p \in TitleParens,
                             s \in TitleSeasons, t \in TitleTails}

\* one call of _clean_title
CleanUnit ==
  /\ unit = NoUnit
  /\ \E title \in Titles :
       unit' = [op |-> "clean", title |-> title, out |-> clean_title(title)]
  /\ UNCHANGED <<dbvars, sessvars, histvars, sched, cycle>>

SpecTitle == Init /\ [][CleanUnit]_vars

(***************************************************************************)
(* BingedScraper.scrape_page: the list request, the genre filter, one      *)
(* detail lookup per listing that passed, run as concurrent tasks under    *)
(* the scraper's semaphore, and the assembly of the page's records.        *)
(***************************************************************************)
\* asyncio.Semaphore(5)
DetailConcurrency == 5

GENRE_PARTIAL_BLOCKLIST ==
  {<<"r", "e", "a", "l", "i", "t", "y">>,
   <<"d", "o", "c", "u", "m", "e", "n", "t", "a", "r", "y">>,
   <<"t", "a", "l", "k">>,
   <<"n", "e", "w", "s">>,
   <<"g", "a", "m", "e">>,
   <<"s", "t", "a", "n", "d", "-", "u", "p">>,
   <<"s", "h", "o", "r", "t", "s">>,
   <<"m", "i", "n", "i">>,
   <<"m", "u", "s", "i", "c">>}

GENRE_EXACT_BLOCKLIST == {<<"m", "u", "s", "i", "c">>}

\* a listing without a "genre" key: item.get("genre", "") is ""
NoGenre == <<None>>

\* a filter that compares the genre string as it was sent
genre_blocked_case_sensitive(genre) ==
  LET genres_str == IF genre = NoGenre THEN <<>> ELSE genre
      tokens == split(genres_str, ",")
  IN /\ genres_str # <<>>
     /\ \/ \E bad \in GENRE_PARTIAL_BLOCKLIST : contains(genres_str, bad)
        \/ \E k \in DOMAIN tokens : strip(tokens[k]) \in GENRE_EXACT_BLOCKLIST

\* "GENRE FILTERING": the listing is skipped (`continue`)
genre_blocked(genre) ==
  LET genres_str == IF genre = NoGenre THEN <<>> ELSE genre
      genres_lower == str_lower(genres_str)
      tokens == split(genres_lower, ",")
  IN /\ genres_str # <<>>
     /\ \/ \E bad \in GENRE_PARTIAL_BLOCKLIST : contains(genres_lower, bad)
        \/ \E k \in DOMAIN tokens : strip(tokens[k]) \in GENRE_EXACT_BLOCKLIST

\* the genre strings of the listings
Genres ==
  {NoGenre,
   <<>>,
   <<"D", "r", "a", "m", "a">>,
   <<"D", "r", "a", "m", "a", ",", " ", "C", "o", "m", "e", "d", "y">>,
   <<"R", "e", "a", "l", "i", "t", "y">>,
   <<"T", "a", "l", "k", " ", "S", "h", "o", "w">>,
   <<"M", "u", "s", "i", "c", "a", "l">>,
   <<"A", "c", "t", "i", "o", "n", ",", " ", " ", "M", "u", "s", "i", "c", " ">>,
   <<"M", "U", "S", "I", "C">>,
   <<"F", "e", "m", "i", "n", "i", "s", "t", " ", "D", "r", "a", "m", "a">>,
   <<"S", "t", "a", "n", "d", "-", "U", "p", " ", "C", "o", "m", "e", "d", "y">>,
   <<"C", "r", "i", "m", "e", ",", "N", "e", "w", "s">>}

\* the JSON a detail request answers with on a 200: without an "imdb" key,
\* with a null, empty or blank one, with an id (here padded by a blank)
NoValue == <<None>>
DetailBody(keyed, imdb) == [keyed |-> keyed, imdb |-> imdb]
DetailBodies ==
  {DetailBody(FALSE, NoValue), DetailBody(TRUE, NoValue), DetailBody(TRUE, <<>>),
   DetailBody(TRUE, <<" ", " ">>), DetailBody(TRUE, <<" ", "t", "t", "7">>),
   DetailBody(TRUE, <<"t", "t", "8">>)}

\* `if detail_data and "imdb" in detail_data`, `if imdb_value and
\* imdb_value.strip()`: the stripped id, or None
imdb_of(body) ==
  IF body.keyed /\ body.imdb # NoValue /\ strip(body.imdb) # <<>>
  THEN strip(body.imdb) ELSE NoValue

\* what the server answers to the attempts of one request
Answers(a, b, c) == <<a, b, c>>
Always(o) == Answers(o, o, o)
DetailAnswers ==
  {Always(Status(200)), Always(Status(404)), Always(Status(500)),
   Answers(Status(429), Status(200), Status(200)),
   Answers([kind |-> "TimeoutError", status |-> 0, header |-> NoHeader, keyed |-> FALSE],
           Status(503), Status(200))}

\* a listing of data["data"] (id 0: no "id"), with what the detail endpoint
\* will answer for it
PageListing(id, genre, title, outs, detail) ==
  [id |-> id, genre |-> genre, title |-> title, outs |-> outs, detail |-> detail]

\* _fetch_details_concurrently(session, item) inside `async with self.sem`:
\* the requests and sleeps of its _fetch call, in order (none without an
\* id), and the id it returns
lookup(item) ==
  IF item.id = 0 THEN [trace |-> <<>>, imdb |-> NoValue]
  ELSE LET detail_data == binged_fetch(item.outs, 1, <<>>)
       IN [trace |-> detail_data.trace,
           imdb |-> IF detail_data.result = "data" THEN imdb_of(item.detail)
                    ELSE NoValue]

\* valid_items: the listings the filter let pass, as indexes of data["data"]
valid_items(page) ==
  SelectSeq([i \in 1..Len(page) |-> i], LAMBDA i : ~genre_blocked(page[i].genre))

\* one record of `results`; raw_data is the listing, named by its index
result_record(page, i, binged_imdb_id) ==
  [title |-> clean_title(page[i].title),
   binged_imdb_id |-> binged_imdb_id,
   raw_data |-> i]

\* an assembly that pairs the ids with the listings of the response
assemble_from_listings(page, valid, imdb_ids) ==
  [k \in 1..Len(valid) |-> result_record(page, k, imdb_ids[k])]

\* an assembly that leaves out the listings without an id
assemble_resolved_only(page, valid, imdb_ids) ==
  LET all == [k \in 1..Len(valid) |-> result_record(page, valid[k], imdb_ids[k])]
  IN SelectSeq(all, LAMBDA r : r.binged_imdb_id # NoValue)

\* "3. Assemble Results": zip(valid_items, imdb_ids)
assemble(page, valid, imdb_ids) ==
  [k \in 1..Len(valid) |-> result_record(page, valid[k], imdb_ids[k])]

\* a page that keeps the semaphore busy: eight listings pass the filter,
\* seven of them send requests, two of them retry with sleeps in between
BusyPage ==
  <<PageListing(1, <<"D", "r", "a", "m", "a">>, <<"A", " ", "(", "2", "0", "2", "0", ")">>,
            Answers(Status(500), Status(429), Status(200)), DetailBody(TRUE, <<"t", "t", "1">>)),
    PageListing(2, <<"R", "e", "a", "l", "i", "t", "y">>, <<"B">>, Always(Status(200)), DetailBody(TRUE, <<"t", "t", "2">>)),
    PageListing(3, <<"D", "r", "a", "m", "a", ",", " ", "C", "o", "m", "e", "d", "y">>, <<"C", " ", "S", "2">>, Always(Status(200)), DetailBody(TRUE, <<" ", "t", "t", "3", " ">>)),
    PageListing(4, NoGenre, <<"D">>, Always(Status(404)), DetailBody(TRUE, <<"t", "t", "4">>)),
    PageListing(5, <<>>, <<"E">>, Always(Status(500)), DetailBody(TRUE, <<"t", "t", "5">>)),
    PageListing(0, <<"A", "c", "t", "i", "o", "n">>, <<"F">>, Always(Status(200)), DetailBody(TRUE, <<"t", "t", "6">>)),
    PageListing(7, <<"T", "h", "r", "i", "l", "l", "e", "r">>, <<"G">>, Always(Status(200)), DetailBody(FALSE, NoValue)),
    PageListing(8, <<"C", "r", "i", "m", "e">>, <<"H">>,
            Answers([kind |-> "TimeoutError", status |-> 0, header |-> NoHeader, keyed |-> FALSE],
                    Status(200), Status(200)), DetailBody(TRUE, <<" ">>)),
    PageListing(9, <<"H", "o", "r", "r", "o", "r">>, <<"I">>, Always(Status(200)), DetailBody(TRUE, <<"t", "t", "9">>))>>

\* the pages of the check: the busy one, and every page of one listing
Pages ==
  {BusyPage}
    \cup {<<PageListing(id, genre, <<"T">>, outs, detail)>> :
            id \in {0, 1}, genre \in Genres, outs \in DetailAnswers, detail \in DetailBodies}

\* what the server answers to the list request: the page, a 200 without a
\* "data" key, 404, or 500 on every attempt
ListAnswers ==
  {Always(Status(200)), Always([Status(200) EXCEPT !.keyed = FALSE]),
   Always(Status(404)), Always(Status(500))}

\* the tasks that hold the semaphore, counted without the sleeping ones
holders_requesting(page, valid, at) ==
  {t \in DOMAIN at :
     /\ at[t] \in 1..Len(lookup(page[valid[t]]).trace)
     /\ lookup(page[valid[t]]).trace[at[t]].ev = "request"}

\* the tasks inside `async with self.sem`: from the acquisition to the
\* return, through every request and every sleep of _fetch
holders(page, valid, at) ==
  {t \in DOMAIN at : at[t] \in 1..Len(lookup(page[valid[t]]).trace)}

\* the tasks that returned
finished(page, valid, at) ==
  {t \in DOMAIN at : at[t] > Len(lookup(page[valid[t]]).trace)}

\* scrape_page up to `asyncio.gather(*tasks)`: the list request, then
\* `return []` or one task per listing that passed the filter
ScrapePage ==
  /\ unit = NoUnit
  /\ \E outs \in ListAnswers :
       LET data == binged_fetch(outs, 1, <<>>)
       IN IF page_of(data) = "listings"
          THEN \E page \in Pages :
                 LET valid == valid_items(page)
                 IN unit' = [op |-> "page", list |-> "listings", page |-> page,
                             valid |-> valid, at |-> [t \in 1..Len(valid) |-> 0],
                             inversion |-> FALSE, phase |-> "gather", out |-> <<>>]
          ELSE unit' = [op |-> "page", list |-> page_of(data), page |-> <<>>,
                        valid |-> <<>>, at |-> <<>>,
                        inversion |-> FALSE, phase |-> "returned", out |-> <<>>]
  /\ UNCHANGED <<dbvars, sessvars, histvars, sched, cycle>>

\* task t moves from position `at[t]` to the next one; it has returned when
\* it is past the last event of its lookup
task_step(t) ==
  LET done == unit.at[t] + 1 > Len(lookup(unit.page[unit.valid[t]]).trace)
      before == {u \in DOMAIN unit.at : u < t}
  IN unit' = [unit EXCEPT
       !.at[t] = @ + 1,
       !.inversion = @ \/ (done /\ before \ finished(unit.page, unit.valid, unit.at) # {})]

\* `async with self.sem`: a task enters when fewer than five hold the
\* semaphore, and sends its first request (without an id it returns None
\* at once)
Acquire ==
  /\ unit.op = "page" /\ unit.phase = "gather"
  /\ \E t \in DOMAIN unit.at :
       /\ unit.at[t] = 0
       /\ Cardinality(holders(unit.page, unit.valid, unit.at)) < DetailConcurrency
       /\ task_step(t)
  /\ UNCHANGED <<dbvars, sessvars, histvars, sched, cycle>>

\* a request of a task is answered or one of its sleeps ends: the task goes
\* on to its next sleep or request, or returns and releases the semaphore
Advance ==
  /\ unit.op = "page" /\ unit.phase = "gather"
  /\ \E t \in holders(unit.page, unit.valid, unit.at) : task_step(t)
  /\ UNCHANGED <<dbvars, sessvars, histvars, sched, cycle>>

\* `imdb_ids = await asyncio.gather(*tasks)` resumes scrape_page
gathered(page, valid, at) == finished(page, valid, at) = DOMAIN at

\* gather has every task's id, in the order of `tasks`; the records are
\* assembled and returned
Assemble ==
  /\ unit.op = "page" /\ unit.phase = "gather"
  /\ gathered(unit.page, unit.valid, unit.at)
  /\ LET imdb_ids == [t \in DOMAIN unit.at |-> lookup(unit.page[unit.valid[t]]).imdb]
     IN unit' = [unit EXCEPT !.phase = "returned",
                             !.out = assemble(unit.page, unit.valid, imdb_ids)]
  /\ UNCHANGED <<dbvars, sessvars, histvars, sched, cycle>>

NextPage == ScrapePage \/ Acquire \/ Advance \/ Assemble

SpecPage == Init /\ [][NextPage]_vars

(***************************************************************************)
(* Properties.                                                             *)
(***************************************************************************)
\* the step that ends a batch by its commit, accepted or refused
CommitStep ==
  /\ pc = "loop"
  /\ pos > Len(pending_items)
  /\ pc' # "loop"
  /\ outcome'.result \in {"committed", "IntegrityError"}

\* C1: in every state, after any sequence of _save_raw_batch calls and
\* drains, no two committed MediaItems carry the same non-null tmdb_id and
\* no two carry the same non-null imdb_id.
C1_NoDuplicateIds ==
  \A i, j \in DOMAIN media_items :
    i # j => /\ (media_items[i].tmdb_id = NoId
                 \/ media_items[i].tmdb_id # media_items[j].tmdb_id)
             /\ (media_items[i].imdb_id = None
                 \/ media_items[i].imdb_id # media_items[j].imdb_id)

\* C1 witness: two committed items with ids, one of them created from raw
\* scrape data (status new, no ids) and given its tmdb_id by a later merge.
C1_Witness ==
  \E i, j \in DOMAIN media_items :
    /\ i # j
    /\ media_items[i].tmdb_id # NoId
    /\ media_items[j].tmdb_id # NoId
    /\ media_items[i].title # "M"

\* C2: when a batch ends, for any two of its records whose resolved metadata
\* carries the same non-null tmdb_id, the committed catalog holds exactly one
\* MediaItem with that tmdb_id.
C2_OneItemPerSharedId ==
  [][CommitStep =>
       \A k, l \in DOMAIN trail :
         (/\ k # l
          /\ Present(trail[k].meta)
          /\ Present(trail[l].meta)
          /\ trail[k].meta.tmdb_id # NoId
          /\ trail[k].meta.tmdb_id = trail[l].meta.tmdb_id)
         => Cardinality({i \in DOMAIN media_items' :
                          media_items'[i].tmdb_id = trail[k].meta.tmdb_id}) = 1]_vars

\* C3: a call of process_scraped_items that is not cut short by a crash
\* ends by returning, and with no PENDING row left.
C3_DrainLeavesNoPending ==
  (pc = "idle" /\ outcome.op = "drain"
               /\ outcome.result \in {"returned", "IntegrityError"})
    => /\ outcome.result = "returned"
       /\ pending_ids(scraped_items) = {}

\* C4: from the return of a drain until the next _save_raw_batch call, no row
\* is PENDING, a further drain selects no batch, and no step changes the
\* committed catalog or any buffered record.
C4_SecondDrainIdle ==
  [][quiet =>
       /\ {i \in DOMAIN scraped_items : scraped_items[i].scrape_status = PENDING} = {}
       /\ quiet' => (pc' # "loop" /\ scraped_items' = scraped_items
                                  /\ media_items' = media_items)]_vars

\* C4 witness: a second drain is running right after a drain that promoted
\* records, with no _save_raw_batch in between.
C4_Witness ==
  /\ quiet
  /\ pc = "select"
  /\ Len(media_items) > 0

\* C5: a committed batch never inserts a MediaItem for a re-scraped listing
\* whose resolver answer is the one it was last promoted with.
C5_RepeatAddsNoItem ==
  [][(CommitStep /\ outcome'.result = "committed")
       => \A k \in DOMAIN trail : trail[k].repeat => ~trail[k].created]_vars

\* C5 (amended): a re-scraped listing whose resolver answer is the one it was
\* last promoted with inserts no MediaItem as long as some committed item
\* still has its source URL or one of the resolved ids.
C5_RepeatAddsNoItemWhileLinked ==
  (pc = "loop" /\ trail # <<>>)
    => LET e == trail[Len(trail)]
       IN (/\ e.repeat
           /\ \E i \in DOMAIN media_items :
                \/ media_items[i].binged_url = e.url
                \/ (e.meta.tmdb_id # NoId
                    /\ media_items[i].tmdb_id = e.meta.tmdb_id)
                \/ (e.meta.imdb_id # None
                    /\ media_items[i].imdb_id = e.meta.imdb_id))
          => ~e.created

\* C5 witness: a listing promoted without metadata was re-scraped, got no
\* metadata again and was found again by its source URL.
C5_Witness ==
  /\ pc = "loop"
  /\ trail # <<>>
  /\ trail[Len(trail)].repeat
  /\ trail[Len(trail)].meta.kind = "absent"
  /\ trail[Len(trail)].via = "db_url"
  /\ ~trail[Len(trail)].created

\* C6: a batch in which a record raised ends committed, with that record in
\* status ERROR carrying the exception text and every other record of the
\* batch PROCESSED or ERROR.
C6_FaultyRecordIsolated ==
  [][(CommitStep /\ \E k \in DOMAIN trail : trail[k].fault)
       => /\ outcome'.result = "committed"
          /\ \A k \in DOMAIN trail :
               /\ scraped_items'[trail[k].sid].scrape_status \in {PROCESSED, ERROR}
               /\ trail[k].fault
                    => /\ scraped_items'[trail[k].sid].scrape_status = ERROR
                       /\ scraped_items'[trail[k].sid].error_message
                            = trail[k].meta.text]_vars

\* C7: the record the loop has just gone through, when both resolver calls
\* gave None, is PROCESSED in the session and was either merged into the item
\* its source URL matched (batch URL map or database URL lookup) or made a
\* new item with its own title, year, platform and URL and no ids.
C7_AbsentMetadataStillPromoted ==
  (pc = "loop" /\ trail # <<>> /\ trail[Len(trail)].meta.kind = "absent")
    => LET e == trail[Len(trail)]
           sc == s_scraped[e.sid]
           item == s_media[e.matched]
       IN /\ ~e.fault
          /\ sc.scrape_status = PROCESSED
          /\ e.matched # 0
          /\ item.binged_url = sc.source_url
          /\ item.platform = sc.platform
          /\ \/ /\ e.via = "db_url"
                /\ media_items[e.matched].binged_url = sc.source_url
             \/ e.via = "batch_url"
             \/ /\ e.created
                /\ e.matched = Len(s_media)
                /\ item.title = sc.title
                /\ item.year = sc.year
                /\ item.tmdb_id = NoId
                /\ item.imdb_id = None

\* C7 witness: a record without metadata has just created its item while
\* another record without metadata was merged by URL earlier in the batch.
C7_Witness ==
  /\ pc = "loop"
  /\ Len(trail) = 2
  /\ trail[1].meta.kind = "absent"
  /\ trail[1].via = "db_url"
  /\ trail[2].meta.kind = "absent"
  /\ trail[2].created

\* C8: every _save_raw_batch call ends committed and leaves exactly one
\* buffered row per source URL.
C8_OneRecordPerUrl ==
  /\ outcome.op = "save" => outcome.result = "ok"
  /\ \A i, j \in DOMAIN scraped_items :
       scraped_items[i].source_url = scraped_items[j].source_url => i = j

\* C9: between the selection of a batch and its commit, and after a crash or
\* an exception that ended the batch, the committed tables are those of the
\* moment the batch was selected and the batch's rows are PENDING.
C9_BatchAtomic ==
  /\ (pc = "loop" \/ outcome.result \in {"crashed", "IntegrityError"})
       => (scraped_items = snap[1] /\ media_items = snap[2])
  /\ pc = "loop"
       => \A k \in DOMAIN pending_items :
            scraped_items[pending_items[k]].scrape_status = PENDING

\* C9 witness: the process stopped after the loop had gone through at least
\* one record of the batch.
C9_Witness ==
  /\ outcome.result = "crashed"
  /\ outcome.processed >= 1

\* C10: the run started at process startup and a run started by the
\* interval scheduler are never in progress at the same time.
C10_SingleFlight == ~(sched.startup \in Running /\ sched.job \in Running)

\* C11: every call of scrape_page is issued with the zero-based page index
\* as page_number and the category of the kind being scraped, and a run of
\* the daily cycle ends only by returning after its drain.
C11_CycleOrder ==
  \A r \in Runs :
    /\ cycle[r].at = "fetch"
         => /\ cycle[r].call.page_number.t = "int"
            /\ cycle[r].call.page_number.n = cycle[r].page_num
            /\ cycle[r].call.category = category_str(cycle[r].kind)
    /\ cycle[r].ended \in {"none", "completed"}

\* the step in which the loop body has gone through one more record
RecordStep ==
  /\ pc = "loop"
  /\ pc' = "loop"
  /\ Len(trail') = Len(trail) + 1

C13_MergeKeepsUnlessResolved ==
  unit.op = "merge"
    => LET e == unit.existing_media
           m == unit.match_data
           out == unit.out
           got == m.kind = "meta"
       IN /\ out.tmdb_id = IF got /\ m.tmdb_id # NoId THEN m.tmdb_id ELSE e.tmdb_id
          /\ out.imdb_id = IF got /\ m.imdb_id \notin {None, ""} THEN m.imdb_id
                           ELSE e.imdb_id
          /\ out.overview = IF got /\ m.overview \notin {None, ""} THEN m.overview
                            ELSE e.overview
          /\ out.poster_url = IF got /\ m.poster_url \notin {None, ""} THEN m.poster_url
                              ELSE e.poster_url
          /\ out.backdrop_url = IF got /\ m.backdrop_url \notin {None, ""}
                                THEN m.backdrop_url ELSE e.backdrop_url

\* C13 witness: an item with overview "A" merged with an answer whose
\* overview is None and whose poster is present keeps "A" and gets the poster.
C13_Witness ==
  /\ unit.op = "merge"
  /\ unit.existing_media.overview = "A"
  /\ unit.match_data.kind = "meta"
  /\ unit.match_data.overview = None
  /\ unit.match_data.poster_url = "pB"
  /\ unit.existing_media.poster_url = "pA"
  /\ unit.out.overview = "A"
  /\ unit.out.poster_url = "pB"

\* C14: after a merge the item's status is APPROVED, whatever it was and
\* whether or not the resolver gave metadata.
C14_MergeApproves ==
  unit.op = "merge" => unit.out.status = "approved"

\* C14 witness: an IGNORED item merged with a record the resolver had no
\* metadata for.
C14_Witness ==
  /\ unit.op = "merge"
  /\ unit.existing_media.status = "ignored"
  /\ unit.match_data.kind = "absent"
  /\ unit.out.status = "approved"

NoMatch ==
  LET e == trail'[Len(trail')]
      m == e.meta
  IN /\ ~(m.kind = "meta" /\ m.tmdb_id # NoId /\ m.tmdb_id \in DOMAIN batch_tmdb_map)
     /\ ~(m.kind = "meta" /\ m.imdb_id # None /\ m.imdb_id \in DOMAIN batch_imdb_map)
     /\ e.url \notin DOMAIN batch_url_map
     /\ \A i \in DOMAIN media_items :
          /\ media_items[i].binged_url # e.url
          /\ m.kind = "meta"
               => /\ (m.tmdb_id = NoId \/ media_items[i].tmdb_id # m.tmdb_id)
                  /\ (m.imdb_id = None \/ media_items[i].imdb_id # m.imdb_id)

\* C16: a PENDING record that matches no item adds exactly one MediaItem,
\* of the record's media type: with resolved metadata it has the resolved
\* title, year and ids and status APPROVED, without it the record's title
\* and year, no ids and status NEW; the record goes from PENDING to PROCESSED.
C16_NoMatchCreates ==
  [][(RecordStep /\ ~trail'[Len(trail')].fault /\ NoMatch)
       => LET e == trail'[Len(trail')]
              m == e.meta
              sc == s_scraped[e.sid]
              item == s_media'[Len(s_media')]
          IN /\ Len(s_media') = Len(s_media) + 1
             /\ SubSeq(s_media', 1, Len(s_media)) = s_media
             /\ item.media_type = sc.media_type
             /\ item.binged_url = sc.source_url
             /\ IF m.kind = "meta"
                THEN /\ item.title = m.title
                     /\ item.year = m.year
                     /\ item.tmdb_id = m.tmdb_id
                     /\ item.imdb_id = m.imdb_id
                     /\ item.status = "approved"
                ELSE /\ item.title = sc.title
                     /\ item.year = sc.year
                     /\ item.tmdb_id = NoId
                     /\ item.imdb_id = None
                     /\ item.status = "new"
             /\ sc.scrape_status = "pending"
             /\ s_scraped'[e.sid].scrape_status = "processed"]_vars

\* C16 witness: a series record with resolved metadata has just added its
\* item, the second of the catalog.
C16_Witness ==
  /\ pc = "loop"
  /\ trail # <<>>
  /\ trail[Len(trail)].created
  /\ trail[Len(trail)].meta.kind = "meta"
  /\ trail[Len(trail)].meta.tmdb_id # NoId
  /\ Len(s_media) = 2
  /\ s_media[2].media_type = "series"
  /\ s_media[2].status = "approved"
  /\ s_scraped[trail[Len(trail)].sid].scrape_status = "processed"

\* the last listing of the saved batch shown under source URL u
LastShown(u) ==
  unit.items[CHOOSE k \in DOMAIN unit.items :
               /\ unit.items[k].binged_url = u
               /\ \A l \in DOMAIN unit.items : unit.items[l].binged_url = u => l <= k]

\* ids of the records that were buffered before the last save and whose
\* source URL is among the saved listings
Resaved ==
  {i \in DOMAIN unit.before :
     \E k \in DOMAIN unit.items : unit.items[k].binged_url = unit.before[i].source_url}

\* C17: after a committed _save_raw_batch every record that was already
\* buffered under a saved URL carries the incoming payload and is PENDING,
\* whatever its status was, and the select of the next drain returns it
\* (or a full batch of other PENDING records before it).
C17_ResaveResetsToPending ==
  (unit.op = "save" /\ unit.result = "ok")
    => \A i \in Resaved :
         /\ scraped_items[i].raw_data.languages
              = LastShown(unit.before[i].source_url).raw_data.languages
         /\ scraped_items[i].raw_data.inferred_type = unit.media_type
         /\ scraped_items[i].scrape_status = "pending"
         /\ pc = "loop" => \/ \E k \in DOMAIN pending_items : pending_items[k] = i
                           \/ Len(pending_items) = batch_size

\* C17 witness: a record that was IGNORED was saved again with a changed
\* payload and is in the batch the next drain selected.
C17_Witness ==
  /\ unit.op = "save"
  /\ unit.result = "ok"
  /\ pc = "loop"
  /\ \E i \in Resaved :
       /\ unit.before[i].scrape_status = "ignored"
       /\ unit.before[i].raw_data.languages # scraped_items[i].raw_data.languages
       /\ \E k \in DOMAIN pending_items : pending_items[k] = i

\* C18: after a committed _save_raw_batch every record that was already
\* buffered under a saved URL has the title, year and platform of the
\* incoming listing.
C18_ResaveOverwritesFields ==
  (unit.op = "save" /\ unit.result = "ok")
    => \A i \in Resaved :
         LET item_data == LastShown(unit.before[i].source_url)
         IN /\ scraped_items[i].title = item_data.title
            /\ scraped_items[i].year = item_data.year
            /\ scraped_items[i].platform = item_data.platform

\* C19: a _save_raw_batch call that returns, returns the number of listings
\* it was given, updates and inserts alike; on an empty list it returns 0
\* and leaves the buffer as it was.
C19_ActivityCountsEveryListing ==
  (unit.op = "save" /\ unit.result = "ok")
    => /\ unit.activity = Len(unit.items)
       /\ unit.items = <<>> => (unit.activity = 0 /\ scraped_items = unit.before)

\* C19 witness: a call with two listings, one updating a buffered record
\* and one inserting a new one, returned 2.
C19_Witness ==
  /\ unit.op = "save"
  /\ unit.result = "ok"
  /\ pc = "idle"
  /\ Len(unit.items) = 2
  /\ Cardinality(Resaved) = 1
  /\ Len(scraped_items) = Len(unit.before) + 1
  /\ unit.activity = 2

C21_ModeAndPages ==
  \A r \in Runs :
    cycle[r].mode # "none"
      => /\ cycle[r].mode = "BACKFILL" <=> cycle[r].count < 100
         /\ cycle[r].mode = "MAINTENANCE" <=> cycle[r].count >= 100
         /\ cycle[r].max_pages = IF cycle[r].mode = "BACKFILL"
                                 THEN MAX_PAGES_BACKFILL ELSE MAX_PAGES_MAINTENANCE
         /\ cycle[r].requests <= cycle[r].max_pages
         /\ cycle[r].at = "fetch"
              => /\ cycle[r].page_num = cycle[r].requests
                 /\ cycle[r].page_num < cycle[r].max_pages
                 /\ cycle[r].call.page_number = PyInt(cycle[r].page_num)

\* C22: process_scraped_items selects only PENDING records, and no step of
\* it changes the status, error message or payload of a record that is
\* PROCESSED, ERROR or IGNORED, in the database or in the session.
C22_DrainSkipsSettled ==
  [][/\ pc' = "loop"
          => \A k \in DOMAIN pending_items' :
               scraped_items'[pending_items'[k]].scrape_status = "pending"
     /\ \A i \in DOMAIN scraped_items :
          scraped_items[i].scrape_status \in {"processed", "error", "ignored"}
            => /\ i \in DOMAIN scraped_items'
               /\ scraped_items'[i].scrape_status = scraped_items[i].scrape_status
               /\ scraped_items'[i].error_message = scraped_items[i].error_message
               /\ scraped_items'[i].raw_data = scraped_items[i].raw_data
               /\ pc' = "loop" => s_scraped'[i] = scraped_items[i]]_vars

\* C22 witness: a batch was committed that promoted a PENDING record while
\* the buffer also holds an IGNORED record.
C22_Witness ==
  /\ outcome.op = "drain"
  /\ outcome.result = "committed"
  /\ \E i, j \in DOMAIN scraped_items :
       /\ scraped_items[i].scrape_status = "ignored"
       /\ snap[1][j].scrape_status = "pending"
       /\ scraped_items[j].scrape_status = "processed"

\* C23: for each record get_details_by_imdb is called, and called first,
\* exactly when the payload carries binged_imdb_id; search_by_query(title,
\* year, media type) is called exactly when get_details_by_imdb was not
\* called or returned None, and never after it returned metadata.
C23_ResolverOrder ==
  unit.op = "resolve"
    => LET sc == unit.scraped
           carries == TruthyS(sc.raw_data.binged_imdb_id)
           ById == {k \in DOMAIN unit.calls : unit.calls[k].fn = "get_details_by_imdb"}
           ByQuery == {k \in DOMAIN unit.calls : unit.calls[k].fn = "search_by_query"}
       IN /\ ById = (IF carries THEN {1} ELSE {})
          /\ carries => unit.calls[1].imdb_id = sc.raw_data.binged_imdb_id
          /\ Cardinality(ByQuery) <= 1
          /\ ByQuery # {} <=> (~carries \/ unit.ext.kind = "absent")
          /\ \A k \in ByQuery :
               /\ k = Len(unit.calls)
               /\ unit.calls[k].title = sc.title
               /\ unit.calls[k].year = sc.year
               /\ unit.calls[k].media_type = sc.media_type
               /\ unit.match_data = unit.qry
          /\ (carries /\ unit.ext.kind = "meta")
               => (ByQuery = {} /\ unit.match_data = unit.ext)

\* C23 witness: a record carrying an id whose id lookup returned None was
\* resolved by the query that followed it.
C23_Witness ==
  /\ unit.op = "resolve"
  /\ Len(unit.calls) = 2
  /\ unit.calls[1].fn = "get_details_by_imdb"
  /\ unit.calls[2].fn = "search_by_query"
  /\ unit.ext.kind = "absent"
  /\ unit.match_data.kind = "meta"

\* C24: a BingedScraper._fetch call sends its requests as attempts 1, 2, ...
\* up to 3 and never raises, whatever 429, 5xx, network and timeout failures
\* it meets; when its third attempt fails too it returns None; and
\* scrape_page returns an empty list when its list request returned None.
C24_FetchNeverRaises ==
  unit.op = "fetch"
    => LET sent == RequestsOf(unit.binged)
       IN /\ Len(sent) \in 1..retries
          /\ \A a \in DOMAIN sent : sent[a] = a
          /\ unit.binged.result \in {"data", "none"}
          /\ unit.binged.result = "data" <=> unit.outs[Len(sent)] \in
               {Status(200), [Status(200) EXCEPT !.keyed = FALSE]}
          /\ unit.binged.result = "none" => unit.page = "empty"
          /\ unit.page # "raise"

\* C24 witness: a timeout, a 503 and a 429 used up the three attempts; the
\* call returned None and the page is empty.
C24_Witness ==
  /\ unit.op = "fetch"
  /\ unit.outs[1].kind = "TimeoutError"
  /\ unit.outs[2] = Status(503)
  /\ unit.outs[3].kind = "status" /\ unit.outs[3].status = 429
  /\ Len(RequestsOf(unit.binged)) = 3
  /\ unit.binged.result = "none"
  /\ unit.page = "empty"

\* C25: when attempt 1 of a BingedScraper._fetch call meets a 429 and
\* attempt 2 a 200, the call sleeps exactly once between the two requests,
\* for the 60 s cooldown, and returns the body of attempt 2.
C25_OneCooldown ==
  (/\ unit.op = "fetch"
   /\ unit.outs[1].kind = "status" /\ unit.outs[1].status = 429
   /\ unit.outs[2].kind = "status" /\ unit.outs[2].status = 200)
    => /\ RequestsOf(unit.binged) = <<1, 2>>
       /\ unit.binged.result = "data"
       /\ unit.binged.keyed = unit.outs[2].keyed
       /\ WaitsAfter(unit.binged, 1) = <<[why |-> "cooldown", ms |-> cooldown_ms]>>

\* the attempt met a server error of the retried kind, or a network or
\* timeout error
Transient(o) ==
  \/ o.kind \in {"ClientError", "TimeoutError"}
  \/ o.kind = "status" /\ o.status \in {500, 502, 503, 504}

\* C26: in both _fetch methods a retry after a 5xx, network or timeout
\* failure of attempt a (a = 1, 2) comes after exactly one wait, of 2^a
\* seconds, and nothing is waited for after a third such failure; a 500, a
\* network or a timeout failure of attempt 1 or 2 is always retried, and
\* three 500s make exactly three requests and return None without raising.
C26_ExponentialBackoff ==
  unit.op = "fetch"
    => \A f \in {unit.binged, unit.tmdb} :
         LET sent == RequestsOf(f)
         IN /\ \A a \in DOMAIN sent :
                 (unit.outs[a].kind # "status" \/ unit.outs[a].status \in 500..599)
                   => /\ (a < Len(sent))
                           => WaitsAfter(f, a)
                                = <<[why |-> "backoff", ms |-> (2 ^ a) * 1000]>>
                      /\ (a = retries) => (WaitsAfter(f, a) = <<>> /\ f.result = "none")
                      /\ (Transient(unit.outs[a]) /\ a < retries) => a < Len(sent)
            /\ (\A a \in 1..retries : unit.outs[a] = Status(500))
                 => (sent = <<1, 2, 3>> /\ f.result = "none")

\* C26 witness: three 500s; both calls waited 2 s and 4 s and returned None.
C26_Witness ==
  /\ unit.op = "fetch"
  /\ \A a \in 1..retries : unit.outs[a] = Status(500)
  /\ \A f \in {unit.binged, unit.tmdb} :
       /\ RequestsOf(f) = <<1, 2, 3>>
       /\ WaitsAfter(f, 1) = <<[why |-> "backoff", ms |-> 2000]>>
       /\ WaitsAfter(f, 2) = <<[why |-> "backoff", ms |-> 4000]>>
       /\ WaitsAfter(f, 3) = <<>>
       /\ f.result = "none"

\* C27: a 404 answered to any attempt of a MetadataService._fetch call ends
\* the call with None: its request is the last thing the call does, no
\* sleep and no further request follow it.
C27_NotFoundEndsCall ==
  unit.op = "fetch"
    => LET sent == RequestsOf(unit.tmdb)
       IN \A a \in DOMAIN sent :
            unit.outs[a] = Status(404)
              => /\ a = Len(sent)
                 /\ unit.tmdb.result = "none"
                 /\ WaitsAfter(unit.tmdb, a) = <<>>
                 /\ unit.tmdb.trace[Len(unit.tmdb.trace)] = Request(a)

\* C27 witness: a 500 on attempt 1 and a 404 on attempt 2, where the call
\* ended though a third attempt was left.
C27_Witness ==
  /\ unit.op = "fetch"
  /\ unit.outs[1] = Status(500)
  /\ unit.outs[2] = Status(404)
  /\ unit.outs[3] = Status(200)
  /\ RequestsOf(unit.tmdb) = <<1, 2>>
  /\ unit.tmdb.result = "none"

\* the kinds of the waits of a fetch after attempt a
WaitKinds(f, a) ==
  [n \in DOMAIN WaitsAfter(f, a) |-> WaitsAfter(f, a)[n].why]

\* C28: for every sequence of per-attempt outcomes among 200, 429, 5xx and
\* network error, BingedScraper._fetch and MetadataService._fetch send the
\* same attempts, wait after the same attempts with waits of the same
\* kinds, and end alike, with the body or with None.
C28_SameRetryShape ==
  (/\ unit.op = "fetch"
   /\ \A a \in 1..retries : unit.outs[a] # Status(404))
    => /\ RequestsOf(unit.binged) = RequestsOf(unit.tmdb)
       /\ \A a \in DOMAIN RequestsOf(unit.binged) \cap DOMAIN RequestsOf(unit.tmdb) :
            WaitKinds(unit.binged, a) = WaitKinds(unit.tmdb, a)
       /\ unit.binged.result = unit.tmdb.result
       /\ unit.tmdb.result \in {"data", "none"}

\* C29: get_details_by_tmdb_id returns None when the details call for the
\* id was answered 404 or used up its retries, and a dict only when TMDB
\* supplied the details of the id.
C29_PrimaryIdAbsence ==
  unit.op = "by_tmdb"
    => /\ ~unit.details.got => unit.out = Absent
       /\ Present(unit.out) => (unit.details.got /\ unit.out.tmdb_id = unit.tmdb_id)

\* C30: get_details_by_imdb formats a movie result of /find with the movie
\* details and a series result with the series details; when /find gives no
\* result or no data and a kind was asked for, it returns what Cinemeta
\* answers for the same IMDb id and that kind; when no kind was asked for,
\* it returns None without calling Cinemeta.
C30_ExternalIdResolution ==
  unit.op = "by_imdb"
    => LET movie == unit.find.got /\ unit.find.body.movie_results # <<>>
           show == unit.find.got /\ ~movie /\ unit.find.body.tv_results # <<>>
       IN /\ unit.calls[1] = find_call(unit.imdb_id)
          /\ movie => /\ unit.calls = <<find_call(unit.imdb_id),
                                        details_call(FoundMovie.id, "movie")>>
                      /\ Present(unit.out)
                      /\ unit.out.tmdb_id = FoundMovie.id
          /\ show => /\ unit.calls = <<find_call(unit.imdb_id),
                                       details_call(FoundShow.id, "series")>>
                     /\ Present(unit.out)
                     /\ unit.out.tmdb_id = FoundShow.id
          /\ (~movie /\ ~show /\ unit.media_type # None)
               => /\ unit.calls = <<find_call(unit.imdb_id),
                                    cinemeta_call(unit.imdb_id, unit.media_type)>>
                  /\ unit.out = unit.cinemeta
          /\ (~movie /\ ~show /\ unit.media_type = None)
               => /\ unit.calls = <<find_call(unit.imdb_id)>>
                  /\ unit.out = Absent

\* C30 witness: /find failed three times for a series id and Cinemeta
\* supplied the metadata.
C30_Witness ==
  /\ unit.op = "by_imdb"
  /\ ~unit.find.got
  /\ unit.find.requests = 3
  /\ unit.media_type = "series"
  /\ unit.calls[2] = cinemeta_call(unit.imdb_id, "series")
  /\ Present(unit.out)
  /\ unit.out.imdb_id = unit.imdb_id

\* the year validation the specification states for a candidate
WithinTolerance(item, target_year, media_type) ==
  LET y == IF media_type = MOVIE THEN item.release_date.head
           ELSE item.first_air_date.head
  IN IF media_type = MOVIE
     THEN y \in {target_year - 1, target_year, target_year + 1}
     ELSE y <= target_year

\* C31: search_by_query returns the metadata of the first candidate, in
\* the order of the results, that passes the year validation; None when the
\* search has no results or no candidate passes; and the first candidate
\* when no target year is given.
C31_FirstValidCandidate ==
  unit.op = "by_query"
    => LET c == unit.candidates
           Passing == {i \in DOMAIN c : unit.valid[i]}
       IN /\ Passing = {} => (unit.out = Absent /\ unit.picked = 0)
          /\ Passing # {}
               => /\ unit.picked \in Passing
                  /\ \A j \in 1..(unit.picked - 1) : ~unit.valid[j]
                  /\ Present(unit.out)
                  /\ unit.out.tmdb_id = c[unit.picked].id
          /\ (unit.year = 0 /\ c # <<>>) => unit.picked = 1

\* C31 witness: the first candidate failed the validation and the second
\* one was returned.
C31_Witness ==
  /\ unit.op = "by_query"
  /\ unit.year = TargetYear
  /\ Len(unit.candidates) = 2
  /\ ~unit.valid[1]
  /\ unit.picked = 2
  /\ unit.out.tmdb_id = unit.candidates[2].id

\* C32: with a target year t a movie candidate released in year y passes
\* exactly when |y - t| <= 1 and a series candidate first aired in year y
\* exactly when y <= t.
C32_YearTolerance ==
  (unit.op = "by_query" /\ unit.year # 0)
    => \A i \in DOMAIN unit.candidates :
         LET item == unit.candidates[i]
             dated == IF unit.media_type = MOVIE THEN TruthyS(item.release_date.text)
                      ELSE TruthyS(item.first_air_date.text)
         IN dated => (unit.valid[i]
                        <=> WithinTolerance(item, unit.year, unit.media_type))

\* C32 witness: of two movie candidates the one released a year after the
\* target passed and the one released two years after it failed.
C32_Witness ==
  /\ unit.op = "by_query"
  /\ unit.year = TargetYear
  /\ unit.media_type = "movie"
  /\ Len(unit.candidates) = 2
  /\ unit.candidates[1].release_date.head = TargetYear + 2
  /\ ~unit.valid[1]
  /\ unit.candidates[2].release_date.head = TargetYear + 1
  /\ unit.valid[2]

\* C39: a merge leaves the existing item's title, year, media type, genres
\* and streaming date as they were, whatever the resolver's answer and the
\* record carry for them.
C39_MergeKeepsIdentity ==
  unit.op = "merge"
    => /\ unit.out.title = unit.existing_media.title
       /\ unit.out.year = unit.existing_media.year
       /\ unit.out.media_type = unit.existing_media.media_type
       /\ unit.out.genres = unit.existing_media.genres
       /\ unit.out.streaming_date = unit.existing_media.streaming_date

\* C39 witness: a movie item was merged with a series record and an answer
\* whose title, year and genres differ from the item's.
C39_Witness ==
  /\ unit.op = "merge"
  /\ Present(unit.match_data)
  /\ unit.match_data.title # unit.existing_media.title
  /\ unit.match_data.year # unit.existing_media.year
  /\ unit.match_data.genres # unit.existing_media.genres
  /\ unit.scraped.media_type # unit.existing_media.media_type
  /\ unit.scraped.title # unit.existing_media.title
  /\ unit.out.overview = unit.match_data.overview
  /\ unit.out.title = unit.existing_media.title

\* C40: a buffered record carries an error message only while its status
\* is ERROR.
C40_MessageOnlyOnError ==
  \A i \in DOMAIN scraped_items :
    scraped_items[i].error_message # None => scraped_items[i].scrape_status = "error"

\* C38: a record that ends its iteration with status ERROR has changed
\* nothing of the catalog: the session's catalog rows and the batch caches
\* are after the iteration what they were before it (so no row was added
\* and no field of a row was assigned on its behalf), and the rest of the
\* batch runs as if the record were not in it.
C38_ErrorLeavesCatalog ==
  [][(/\ pc = "loop"
      /\ pos <= Len(pending_items)
      /\ pos' = pos + 1
      /\ s_scraped'[pending_items[pos]].scrape_status = "error")
     => /\ s_media' = s_media
        /\ batch_tmdb_map' = batch_tmdb_map
        /\ batch_imdb_map' = batch_imdb_map
        /\ batch_url_map' = batch_url_map
        /\ media_items' = media_items]_vars

\* the end of a batch of two records: one ended in ERROR, the other created
\* a catalog row, and the session's catalog holds that one new row only
C38_Witness ==
  /\ pc = "loop"
  /\ pos > Len(pending_items)
  /\ Len(trail) = 2
  /\ \E i, j \in DOMAIN trail : trail[i].fault /\ trail[j].created
  /\ \E i \in DOMAIN s_scraped : s_scraped[i].scrape_status = "error"
  /\ Len(s_media) = Len(media_items) + 1

\* C36: title cleaning decodes HTML entities, removes parenthesised parts
\* and a trailing "Season N" / "S N" suffix (in any case) and trims
\* whitespace, and leaves the rest of the title as it is: the result is the
\* decoded title without its parenthesised parts, trimmed, either whole or
\* without an ending that consists of the word Season or S and a number.
C36_TitleCleaning ==
  unit.op = "clean" /\ unit.title # NoTitle =>
    LET p == strip(remove_parens(html_unescape(unit.title)))
        IsSuffix(x) ==
          \E word \in {<<"s", "e", "a", "s", "o", "n">>, <<"s">>} :
            /\ starts_at(str_lower(x), 1, word)
            /\ Len(x) > Len(word)
            /\ x[Len(x)] \in Digits
            /\ \E d \in (Len(word) + 1)..Len(x) :
                 /\ \A k \in (Len(word) + 1)..(d - 1) : IsSpace(x[k])
                 /\ \A k \in d..Len(x) : x[k] \in Digits
        Cuts == {k \in 0..Len(p) :
                   \/ k = Len(p)
                   \/ /\ IsSuffix(SubSeq(p, k + 1, Len(p)))
                      /\ k = 0 \/ IsSpace(p[k])}
    IN unit.out \in {strip(SubSeq(p, 1, k)) : k \in Cuts}

\* C33: while a page is being fetched, at most 5 detail lookups are in
\* flight at any time, under every interleaving of the lookups; a lookup is
\* in flight from its first request to its return, through the sleeps
\* between its attempts.
C33_AtMostFiveInFlight ==
  unit.op = "page" =>
    Cardinality({t \in DOMAIN unit.at :
                   /\ unit.at[t] >= 1
                   /\ unit.at[t] <= Len(binged_fetch(unit.page[unit.valid[t]].outs,
                                                     1, <<>>).trace)
                   /\ unit.page[unit.valid[t]].id # 0}) <= 5

\* five lookups are in flight, one of them asleep between two attempts,
\* while another task waits for the semaphore
C33_Witness ==
  /\ unit.op = "page"
  /\ unit.phase = "gather"
  /\ Cardinality(holders(unit.page, unit.valid, unit.at)) = 5
  /\ \E t \in holders(unit.page, unit.valid, unit.at) :
       lookup(unit.page[unit.valid[t]]).trace[unit.at[t]].ev = "sleep"
  /\ \E t \in DOMAIN unit.at : unit.at[t] = 0 /\ unit.page[unit.valid[t]].id # 0

\* C34: whatever order the lookups of a page complete in, the i-th record
\* of the result is built from the i-th listing that passed the filter and
\* carries the id that listing's own lookup returned, and no record exists
\* before every lookup has returned.
C34_ListingOrder ==
  unit.op = "page" /\ unit.list = "listings" =>
    LET Passed == {i \in DOMAIN unit.page : ~genre_blocked(unit.page[i].genre)}
        nth(k) == CHOOSE i \in Passed : Cardinality({j \in Passed : j <= i}) = k
    IN /\ unit.out # <<>> =>
            \A t \in DOMAIN unit.at :
              unit.at[t] > Len(lookup(unit.page[unit.valid[t]]).trace)
       /\ unit.phase = "returned" =>
            /\ Len(unit.out) = Cardinality(Passed)
            /\ \A k \in DOMAIN unit.out :
                 /\ unit.out[k].raw_data = nth(k)
                 /\ unit.out[k].title = clean_title(unit.page[nth(k)].title)
                 /\ unit.out[k].binged_imdb_id = lookup(unit.page[nth(k)]).imdb

\* a returned page whose first listing's lookup returned after a later
\* one's, with a listing dropped between listings that were kept, and with
\* two different ids in the result
C34_Witness ==
  /\ unit.op = "page"
  /\ unit.phase = "returned"
  /\ unit.inversion
  /\ \E i, j, k \in DOMAIN unit.page :
       /\ i < j /\ j < k
       /\ ~genre_blocked(unit.page[i].genre)
       /\ genre_blocked(unit.page[j].genre)
       /\ ~genre_blocked(unit.page[k].genre)
  /\ \E k, l \in DOMAIN unit.out :
       /\ unit.out[k].binged_imdb_id # NoValue
       /\ unit.out[l].binged_imdb_id # NoValue
       /\ unit.out[k].binged_imdb_id # unit.out[l].binged_imdb_id

\* C35: a listing is emitted only if its lower-cased genre string contains
\* none of reality, documentary, talk, news, game, stand-up, shorts, mini,
\* music, and none of its comma-separated genres is "music"; a listing that
\* is dropped gets no detail lookup and no record; a listing without a
\* genre string is emitted.
C35_GenreFilter ==
  unit.op = "page" /\ unit.list = "listings" =>
    LET Words == {<<"r", "e", "a", "l", "i", "t", "y">>,
                  <<"d", "o", "c", "u", "m", "e", "n", "t", "a", "r", "y">>,
                  <<"t", "a", "l", "k">>,
                  <<"n", "e", "w", "s">>,
                  <<"g", "a", "m", "e">>,
                  <<"s", "t", "a", "n", "d", "-", "u", "p">>,
                  <<"s", "h", "o", "r", "t", "s">>,
                  <<"m", "i", "n", "i">>,
                  <<"m", "u", "s", "i", "c">>}
        Dropped(genre) ==
          /\ genre # NoGenre
          /\ \/ \E w \in Words : contains(str_lower(genre), w)
             \/ \E k \in DOMAIN split(str_lower(genre), ",") :
                  strip(split(str_lower(genre), ",")[k]) = <<"m", "u", "s", "i", "c">>
        Kept == {i \in DOMAIN unit.page : ~Dropped(unit.page[i].genre)}
    IN /\ {unit.valid[t] : t \in DOMAIN unit.at} = Kept
       /\ Len(unit.at) = Cardinality(Kept)
       /\ \A i \in DOMAIN unit.page :
            unit.page[i].genre \in {NoGenre, <<>>} => i \in Kept
       /\ unit.phase = "returned" =>
            /\ {unit.out[k].raw_data : k \in DOMAIN unit.out} = Kept
            /\ Len(unit.out) = Cardinality(Kept)

\* a returned page with a listing dropped for a genre written in capitals
\* and without a record, and a listing without a genre string among the
\* records
C35_Witness ==
  /\ unit.op = "page"
  /\ unit.phase = "returned"
  /\ \E i \in DOMAIN unit.page :
       /\ unit.page[i].genre # str_lower(unit.page[i].genre)
       /\ genre_blocked(unit.page[i].genre)
       /\ \A k \in DOMAIN unit.out : unit.out[k].raw_data # i
  /\ \E k \in DOMAIN unit.out : unit.page[unit.out[k].raw_data].genre = NoGenre

\* C37: a listing that passed the filter and whose detail lookup yields no
\* data (the listing has no id, the request was refused, the retries were
\* used up, the detail has no id) is in the page's result with its id
\* absent; the result of a page with such listings is not empty.
C37_FailedLookupStillEmitted ==
  unit.op = "page" /\ unit.list = "listings" /\ unit.phase = "returned" =>
    LET NoData(item) ==
          \/ item.id = 0
          \/ binged_fetch(item.outs, 1, <<>>).result # "data"
          \/ ~item.detail.keyed
          \/ item.detail.imdb = NoValue
          \/ \A c \in DOMAIN item.detail.imdb : item.detail.imdb[c] = " "
    IN \A i \in DOMAIN unit.page :
         ~genre_blocked(unit.page[i].genre) /\ NoData(unit.page[i]) =>
           /\ unit.out # <<>>
           /\ \E k \in DOMAIN unit.out :
                /\ unit.out[k].raw_data = i
                /\ unit.out[k].binged_imdb_id = NoValue

\* a returned page with five records without an id: a listing without an
\* id, a refused request, used-up retries, a detail without the key and a
\* detail with a blank id, next to records with an id
C37_Witness ==
  /\ unit.op = "page"
  /\ unit.phase = "returned"
  /\ \E k \in DOMAIN unit.out : unit.out[k].binged_imdb_id # NoValue
  /\ \E a, b, c, d, e \in DOMAIN unit.out :
       /\ \A k \in {a, b, c, d, e} : unit.out[k].binged_imdb_id = NoValue
       /\ unit.page[unit.out[a].raw_data].id = 0
       /\ unit.page[unit.out[b].raw_data].outs[1].status = 404
       /\ \A n \in 1..retries : unit.page[unit.out[c].raw_data].outs[n].status = 500
       /\ /\ unit.page[unit.out[d].raw_data].id # 0
          /\ unit.page[unit.out[d].raw_data].outs[1].status = 200
          /\ ~unit.page[unit.out[d].raw_data].detail.keyed
       /\ /\ unit.page[unit.out[e].raw_data].id # 0
          /\ binged_fetch(unit.page[unit.out[e].raw_data].outs, 1, <<>>).result = "data"
          /\ unit.page[unit.out[e].raw_data].detail.imdb = <<" ">>

====
